---- MODULE Spec2Model ----
(***************************************************************************)
(* Ferrum DSL front end: FerrumParser (crates/ferrum-core/src/parser.rs),  *)
(* FerrumFormatter (crates/ferrum-core/src/formatter.rs) and the HTML      *)
(* generator of the dev server (crates/ferrum-dev-server/src/main.rs).     *)
(*                                                                         *)
(* Strings are sequences of one-character strings, so that trimming,       *)
(* searching, slicing and splitting are computed as the Rust code computes *)
(* them.  A HashMap<String,String> is a set of <<key, value>> pairs with   *)
(* unique keys; the order in which the code iterates over such a map is    *)
(* not fixed by the map and is chosen anew by every call that iterates.    *)
(***************************************************************************)
EXTENDS Integers, Sequences, FiniteSets, TLC

VARIABLES source, fmt, pc, pass, todo, nodes, stack, res, out, html, again, alt,
          components, current_indent,
          files, rx, received, now, wpc, next_tick, pending_changes, files_to_process,
          compiled_components, server_state, reply, saves,
          inners, handles, setting, calls, got

\* the fields of the FerrumParser in use
parser == <<components, current_indent>>

\* a session of the front end on one source
session == <<source, fmt, pc, pass, todo, nodes, stack, res, out, html, again, alt,
             parser>>

\* the dev server: the files it watches, the messages sent on the channel of
\* the watcher task and the number of them it has received, the locals of the
\* task, the compiled output, the reply to the last save request
server == <<files, rx, received, now, wpc, next_tick, pending_changes, files_to_process,
            compiled_components, server_state, reply, saves>>

\* the signals of an application: the shared cells, the handles that point
\* to them, the call of set that is running or ran last with the callbacks
\* it has invoked, and the result of the last get
signals == <<inners, handles, setting, calls, got>>

vars == <<session, server, signals>>

\* no dev server is running
ServerOff ==
    /\ files = <<>>
    /\ rx = <<>>
    /\ received = 0
    /\ now = 0
    /\ wpc = "off"
    /\ next_tick = 0
    /\ pending_changes = {}
    /\ files_to_process = <<>>
    /\ compiled_components = {}
    /\ server_state = <<>>
    /\ reply = <<>>
    /\ saves = 0

\* no signal has been created
SignalsOff ==
    /\ inners = <<>>
    /\ handles = <<>>
    /\ setting = <<>>
    /\ calls = <<>>
    /\ got = <<>>

----------------------------------------------------------------------------
(* String primitives (std::str)                                            *)

\* char::is_whitespace, restricted to the characters of the model
Whitespace == {" ", "\t"}

Min(a, b) == IF a < b THEN a ELSE b

\* str::find(char): 1-based position of the first occurrence, 0 for None
Find(s, c) ==
    IF \E i \in 1..Len(s) : s[i] = c
    THEN CHOOSE i \in 1..Len(s) : s[i] = c /\ \A j \in 1..(i - 1) : s[j] # c
    ELSE 0

\* str::contains(char)
Contains(s, c) == \E i \in 1..Len(s) : s[i] = c

\* str::contains([chars])
ContainsAny(s, cs) == \E i \in 1..Len(s) : s[i] \in cs

\* str::starts_with / str::ends_with
StartsWith(s, p) == Len(s) >= Len(p) /\ SubSeq(s, 1, Len(p)) = p

EndsWith(s, p) == Len(s) >= Len(p) /\ SubSeq(s, Len(s) - Len(p) + 1, Len(s)) = p

\* pattern occurs somewhere in s
IsInfix(p, s) == \E i \in 0..(Len(s) - Len(p)) : SubSeq(s, i + 1, i + Len(p)) = p

RECURSIVE TrimStart(_)
TrimStart(s) ==
    IF s # <<>> /\ Head(s) \in Whitespace THEN TrimStart(Tail(s)) ELSE s

RECURSIVE TrimEnd(_)
TrimEnd(s) ==
    IF s # <<>> /\ s[Len(s)] \in Whitespace
    THEN TrimEnd(SubSeq(s, 1, Len(s) - 1))
    ELSE s

\* str::trim
Trim(s) == TrimEnd(TrimStart(s))

\* position of the first whitespace character of s, Len(s) + 1 if none
FirstWhitespace(s) ==
    IF \E i \in 1..Len(s) : s[i] \in Whitespace
    THEN CHOOSE i \in 1..Len(s) :
             s[i] \in Whitespace /\ \A j \in 1..(i - 1) : s[j] \notin Whitespace
    ELSE Len(s) + 1

\* str::split_whitespace: the non-empty maximal runs of non-whitespace
RECURSIVE SplitWhitespace(_)
SplitWhitespace(s) ==
    LET t == TrimStart(s)
        n == FirstWhitespace(t)
    IN  IF t = <<>> THEN <<>>
        ELSE <<SubSeq(t, 1, n - 1)>> \o SplitWhitespace(SubSeq(t, n, Len(t)))

\* str::split(char): empty pieces are kept
RECURSIVE Split(_, _)
Split(s, c) ==
    LET i == Find(s, c)
    IN  IF i = 0 THEN <<s>>
        ELSE <<SubSeq(s, 1, i - 1)>> \o Split(SubSeq(s, i + 1, Len(s)), c)

\* str::split_once(char).unwrap_or((s, ""))
SplitOnce(s, c) ==
    LET i == Find(s, c)
    IN  IF i = 0 THEN <<s, <<>>>>
        ELSE <<SubSeq(s, 1, i - 1), SubSeq(s, i + 1, Len(s))>>

\* str::lines: split at "\n"; a final empty line is not produced
RECURSIVE Lines(_)
Lines(text) ==
    LET i == Find(text, "\n")
    IN  IF text = <<>> THEN <<>>
        ELSE IF i = 0 THEN <<text>>
        ELSE <<SubSeq(text, 1, i - 1)>> \o Lines(SubSeq(text, i + 1, Len(text)))

\* [String]::join(sep)
RECURSIVE Join(_, _)
Join(ss, sep) ==
    IF ss = <<>> THEN <<>>
    ELSE IF Len(ss) = 1 THEN ss[1]
    ELSE ss[1] \o sep \o Join(Tail(ss), sep)

----------------------------------------------------------------------------
(* HashMap<String, String>                                                 *)

\* HashMap::new
EmptyMap == {}

Keys(m) == {p[1] : p \in m}

\* HashMap::insert: a later write to a key replaces the earlier one
Insert(m, k, v) == {p \in m : p[1] # k} \cup {<<k, v>>}

HasKey(m, k) == \E p \in m : p[1] = k

\* HashMap::get(k).unwrap()
Get(m, k) == (CHOOSE p \in m : p[1] = k)[2]

\* the orders in which a set of keys can be enumerated
Perms(S) ==
    {f \in [1..Cardinality(S) -> S] : \A i, j \in 1..Cardinality(S) : f[i] = f[j] => i = j}

\* HashMap::iter: the entries of m in the order the ranking gives to their keys
Iter(m, rank) ==
    LET ks == SelectSeq(rank, LAMBDA k : HasKey(m, k))
    IN  [i \in 1..Len(ks) |-> <<ks[i], Get(m, ks[i])>>]

----------------------------------------------------------------------------
(* FerrumNode                                                              *)

Element(tag, props, children) ==
    [kind |-> "Element", tag |-> tag, props |-> props, children |-> children]

Text(text) == [kind |-> "Text", text |-> text]

Component(name, props, children) ==
    [kind |-> "Component", name |-> name, props |-> props, children |-> children]

\* outcomes of a fallible call: Ok(value), Err(message), or a panic
StateBinding(signal, operation) ==
    [kind |-> "StateBinding", signal |-> signal, operation |-> operation]

\* the Import variant that formatter.rs matches on
Import(names, from) == [kind |-> "Import", names |-> names, from |-> from]

Ok(v) == [status |-> "ok", value |-> v]

Err(msg) == [status |-> "err", msg |-> msg]

Panic == [status |-> "panic"]

----------------------------------------------------------------------------
(* FerrumParser                                                            *)

\* the attribute names that the parser and the formatter treat specially
ID == <<"i", "d">>

CLASS == <<"c", "l", "a", "s", "s">>

SelfClosingTags ==
    { <<"i", "n", "p", "u", "t">>, <<"i", "m", "g">>, <<"b", "r">>,
      <<"h", "r">>, <<"m", "e", "t", "a">>, <<"l", "i", "n", "k">> }

\* anyhow!("Invalid HTML element syntax: {}", line); the fixed prefix is one piece
InvalidHtmlSyntax(line) == <<"Invalid HTML element syntax: ">> \o line

\* the loop of parse_props over the comma-separated pairs
RECURSIVE parse_props_pairs(_, _)
parse_props_pairs(pairs, props) ==
    IF pairs = <<>> THEN props
    ELSE LET pair      == Trim(Head(pairs))
             colon_pos == Find(pair, ":")
             key       == Trim(SubSeq(pair, 1, colon_pos - 1))
             value     == Trim(SubSeq(pair, colon_pos + 1, Len(pair)))
         IN  parse_props_pairs(Tail(pairs),
                               IF colon_pos # 0 THEN Insert(props, key, value) ELSE props)

\* parse_props that reads the first pair only
parse_props_first_pair(props_str) ==
    Ok(parse_props_pairs(<<Split(props_str, ",")[1]>>, EmptyMap))

parse_props(props_str) == Ok(parse_props_pairs(Split(props_str, ","), EmptyMap))

\* quoted_prop that keeps the quotes of the value
quoted_prop_keeps_quotes(part, props) ==
    IF Find(part, "=") = 0 THEN Ok(props)
    ELSE IF StartsWith(SubSeq(part, Find(part, "=") + 1, Len(part)), <<"\"">>)
            /\ EndsWith(part, <<"\"">>)
    THEN Ok(Insert(props, SubSeq(part, 1, Find(part, "=") - 1),
                   SubSeq(part, Find(part, "=") + 1, Len(part))))
    ELSE Ok(props)

\* one key="value" token: the map after the token, or a panic when the slice
\* value[1..value.len() - 1] is taken of the one-character value "\""
quoted_prop(part, props) ==
    LET eq_pos == Find(part, "=")
        key    == SubSeq(part, 1, eq_pos - 1)
        value  == SubSeq(part, eq_pos + 1, Len(part))
    IN  IF eq_pos = 0 THEN Ok(props)
        ELSE IF StartsWith(value, <<"\"">>) /\ EndsWith(value, <<"\"">>)
        THEN IF 1 > Len(value) - 1 THEN Panic
             ELSE Ok(Insert(props, key, SubSeq(value, 2, Len(value) - 1)))
        ELSE Ok(props)

\* the loop over rest.split_whitespace() in parse_html_element
RECURSIVE html_props(_, _)
html_props(parts, props) ==
    IF parts = <<>> THEN Ok(props)
    ELSE LET r == quoted_prop(Head(parts), props)
         IN  IF r.status = "ok" THEN html_props(Tail(parts), r.value) ELSE r

\* the end of parse_html_element: props is the result of the loop
html_element(tag, props) ==
    IF props.status = "ok" THEN Ok(Element(tag, props.value, <<>>)) ELSE props

\* let (tag, rest) = tag_content.split_once(' ').unwrap_or((tag_content, ""))
html_tag_content(split) ==
    html_element(split[1],
                 IF split[2] # <<>>
                 THEN html_props(SplitWhitespace(split[2]), EmptyMap)
                 ELSE Ok(EmptyMap))

\* start and end are the places of the first '<' and the first '>'
html_slice(line, start, end) ==
    IF start # 0 /\ end # 0
    THEN IF start + 1 > end THEN Panic     \* &line[start + 1..end], begin > end
         ELSE html_tag_content(SplitOnce(SubSeq(line, start + 1, end - 1), " "))
    ELSE Err(InvalidHtmlSyntax(line))

parse_html_element(line) == html_slice(line, Find(line, "<"), Find(line, ">"))

\* the loop over the remaining tokens in parse_tag_shorthand; the state of the
\* loop is the pair of props and classes
RECURSIVE shorthand_parts(_, _, _)
shorthand_parts(parts, props, classes) ==
    IF parts = <<>> THEN Ok([props |-> props, classes |-> classes])
    ELSE LET part == Head(parts)
         IN  IF StartsWith(part, <<".">>)
             THEN shorthand_parts(Tail(parts), props,
                                  Append(classes, SubSeq(part, 2, Len(part))))
             ELSE LET r == quoted_prop(part, props)
                  IN  IF r.status = "ok"
                      THEN shorthand_parts(Tail(parts), r.value, classes)
                      ELSE r

\* the end of parse_tag_shorthand: r is the result of the loop
shorthand_element(tag_part, r) ==
    IF r.status # "ok" THEN r
    ELSE Ok(Element(tag_part,
                    IF r.value.classes # <<>>
                    THEN Insert(r.value.props, CLASS, Join(r.value.classes, <<" ">>))
                    ELSE r.value.props,
                    <<>>))

parse_tag_shorthand(line) ==
    LET parts == SplitWhitespace(line)
    IN  IF parts = <<>> THEN Err(<<"Empty line">>)
        ELSE LET first_part == Head(parts)
                 split1     == SplitOnce(first_part, "#")
                 tag_part   == split1[1]
                 rest       == split1[2]
                 split2     == IF rest # <<>> THEN SplitOnce(rest, ".") ELSE <<<<>>, <<>>>>
                 id_part    == split2[1]
                 class_part == split2[2]
                 props0     == IF id_part # <<>> THEN Insert(EmptyMap, ID, id_part)
                               ELSE EmptyMap
                 classes0   == IF class_part # <<>> THEN <<class_part>> ELSE <<>>
             IN  shorthand_element(tag_part, shorthand_parts(Tail(parts), props0, classes0))

parse_line(line) ==
    LET component_end == Find(line, "(")
    IN  IF component_end # 0 /\ EndsWith(line, <<")">>)
        THEN LET component_name == Trim(SubSeq(line, 1, component_end - 1))
                 props_str      == SubSeq(line, component_end + 1, Len(line) - 1)
                 props          == parse_props(props_str)
             IN  Ok(Component(component_name, props.value, <<>>))
        ELSE IF Contains(line, "<") THEN parse_html_element(line)
        ELSE IF ~ContainsAny(line, {" ", "#", ".", "("}) THEN Ok(Text(line))
        ELSE parse_tag_shorthand(line)

\* has_children that makes every Element child-capable
has_children_any_element(node) == node.kind \in {"Element", "Component"}

has_children(node) ==
    CASE node.kind = "Element"   -> node.tag \notin SelfClosingTags
      [] node.kind = "Component" -> TRUE
      [] node.kind = "Text"      -> FALSE
      [] node.kind = "StateBinding" -> FALSE

\* get_children_mut(..).is_some()
get_children_mut(node) == node.kind \in {"Element", "Component"}

\* PopDeeper that pops down to the level of the line
PopDeeper_to_level(stk, indent) == SubSeq(stk, 1, Min(Len(stk), indent \div 2))

\* while stack.len() > (indent / 2) + 1 { stack.pop(); }
PopDeeper(stk, indent) == SubSeq(stk, 1, Min(Len(stk), (indent \div 2) + 1))

\* a line that the loop of parse skips
Skipped(line) == Trim(line) = <<>> \/ StartsWith(Trim(line), <<"/", "/">>)

\* line.len() - trimmed.len()
IndentOf(line) == Len(line) - Len(Trim(line))

\* Attach whose stack shares its nodes with the result: the child of a
\* top-level parent is also pushed onto that parent in nodes
Attach_shares_nodes(r, ns, popped) ==
    IF r.status # "ok" THEN r
    ELSE [status |-> "ok",
          nodes  |-> IF popped = <<>> THEN Append(ns, r.value)
                     ELSE IF Len(popped) = 1
                     THEN [ns EXCEPT ![Len(ns)].children = Append(@, r.value)]
                     ELSE ns,
          stack  |-> (IF popped # <<>> /\ get_children_mut(popped[Len(popped)])
                      THEN [popped EXCEPT ![Len(popped)].children = Append(@, r.value)]
                      ELSE popped)
                     \o (IF has_children(r.value) THEN <<r.value>> ELSE <<>>)]

\* Attach that skips a line whose parse_line failed and goes on
Attach_skips_errors(r, ns, popped) ==
    IF r.status = "panic" THEN r
    ELSE IF r.status = "err" THEN [status |-> "ok", nodes |-> ns, stack |-> popped]
    ELSE [status |-> "ok",
          nodes  |-> IF popped # <<>> THEN ns ELSE Append(ns, r.value),
          stack  |-> popped \o (IF r.value.kind # "Text" THEN <<r.value>> ELSE <<>>)]

\* the second half of an iteration of the loop of parse: r is the result of
\* parse_line(trimmed)?, popped the stack after the pop loop.  The node is
\* pushed onto the copy of its parent that the stack holds, or onto nodes when
\* the stack is empty, and a copy of it is pushed on the stack
Attach(r, ns, popped) ==
    IF r.status # "ok" THEN r
    ELSE [status |-> "ok",
          nodes  |-> IF popped # <<>> THEN ns ELSE Append(ns, r.value),
          stack  |-> (IF popped # <<>> /\ get_children_mut(popped[Len(popped)])
                      THEN [popped EXCEPT ![Len(popped)].children = Append(@, r.value)]
                      ELSE popped)
                     \o (IF has_children(r.value) THEN <<r.value>> ELSE <<>>)]

\* one iteration of the loop of parse on the parser's locals nodes and stack
ParseIteration(line, ns, stk) ==
    IF Skipped(line) THEN [status |-> "ok", nodes |-> ns, stack |-> stk]
    ELSE Attach(parse_line(Trim(line)), ns, PopDeeper(stk, IndentOf(line)))

\* FerrumParser::parse as a function of its input
RECURSIVE ParseLoop(_, _, _)
RECURSIVE ParseRest(_, _)
ParseLoop(ls, ns, stk) ==
    IF ls = <<>> THEN Ok(ns) ELSE ParseRest(Tail(ls), ParseIteration(Head(ls), ns, stk))

\* the loop after an iteration that gave it
ParseRest(ls, it) == IF it.status = "ok" THEN ParseLoop(ls, it.nodes, it.stack) ELSE it

parse(input) == ParseLoop(Lines(input), <<>>, <<>>)

----------------------------------------------------------------------------
(* FerrumFormatter                                                         *)

\* Default for FerrumFormatter
DefaultIndentSize == 4

DefaultFormatter == [indent_size |-> DefaultIndentSize, indent_char |-> " "]

\* FerrumFormatter::new
NewFormatter(indent_size, indent_char) ==
    [indent_size |-> indent_size, indent_char |-> indent_char]

indent_string(f, depth) == [i \in 1..(depth * f.indent_size) |-> f.indent_char]

\* the keys of every map of a forest: the domain of an iteration ranking
RECURSIVE ForestKeys(_)
ForestKeys(forest) ==
    IF forest = <<>> THEN {}
    ELSE LET node == Head(forest)
         IN  (IF node.kind \in {"Element", "Component"}
              THEN Keys(node.props) \cup ForestKeys(node.children)
              ELSE {})
             \cup ForestKeys(Tail(forest))

\* the iteration orders one call can meet on the maps of a forest
Rankings(forest) == Perms(ForestKeys(forest))

\* other_props that writes id and class too
RECURSIVE other_props_all(_)
other_props_all(entries) ==
    IF entries = <<>> THEN <<>>
    ELSE <<" ">> \o Head(entries)[1] \o <<"=", "\"">> \o Head(entries)[2] \o <<"\"">>
         \o other_props_all(Tail(entries))

\* " key=\"value\"" for every entry other than id and class, in iteration order
RECURSIVE other_props(_)
other_props(entries) ==
    IF entries = <<>> THEN <<>>
    ELSE LET key   == Head(entries)[1]
             value == Head(entries)[2]
         IN  (IF key # ID /\ key # CLASS
              THEN <<" ">> \o key \o <<"=", "\"">> \o value \o <<"\"">>
              ELSE <<>>)
             \o other_props(Tail(entries))

\* ".class" for every class of the list
RECURSIVE dotted_classes(_)
dotted_classes(classes) ==
    IF classes = <<>> THEN <<>>
    ELSE <<".">> \o Head(classes) \o dotted_classes(Tail(classes))

\* "key: value" for every entry, in iteration order
component_props(entries) == [i \in 1..Len(entries) |-> entries[i][1] \o <<":", " ">> \o entries[i][2]]

RECURSIVE format_node(_, _, _, _)
RECURSIVE format_nodes(_, _, _, _)

format_node(f, node, depth, rank) ==
    LET indent == indent_string(f, depth)
    IN  CASE node.kind = "Element" ->
                 indent \o node.tag
                 \o (IF HasKey(node.props, ID) THEN <<"#">> \o Get(node.props, ID) ELSE <<>>)
                 \o (IF HasKey(node.props, CLASS)
                     THEN dotted_classes(SplitWhitespace(Get(node.props, CLASS)))
                     ELSE <<>>)
                 \o other_props(Iter(node.props, rank))
                 \o <<"\n">>
                 \o format_nodes(f, node.children, depth + 1, rank)
          [] node.kind = "Text" ->
                 IF Contains(node.text, " ")
                 THEN indent \o <<"\"">> \o node.text \o <<"\"", "\n">>
                 ELSE indent \o node.text \o <<"\n">>
          [] node.kind = "Component" ->
                 indent \o node.name \o <<"(">>
                 \o Join(component_props(Iter(node.props, rank)), <<",", " ">>)
                 \o <<")", "\n">>
                 \o format_nodes(f, node.children, depth + 1, rank)
          [] node.kind = "StateBinding" ->
                 IF node.operation = <<>>
                 THEN indent \o node.signal \o <<"\n">>
                 ELSE indent \o node.signal \o <<".">> \o node.operation \o <<"\n">>
          [] node.kind = "Import" ->
                 <<"i", "m", "p", "o", "r", "t", " ", "{", " ">>
                 \o Join(node.names, <<",", " ">>)
                 \o <<" ", "}", " ", "f", "r", "o", "m", " ", "\"">>
                 \o node.from \o <<"\"", "\n">>

\* for child in children { self.format_node(child, depth, output)?; }
format_nodes(f, forest, depth, rank) ==
    IF forest = <<>> THEN <<>>
    ELSE format_node(f, Head(forest), depth, rank)
         \o format_nodes(f, Tail(forest), depth, rank)

\* FerrumFormatter::format after its call of parse: parsed is the result of
\* parser.parse(input)
format_parsed(f, parsed, rank) ==
    IF parsed.status = "ok" THEN Ok(format_nodes(f, parsed.value, 0, rank))
    ELSE parsed

----------------------------------------------------------------------------
(* HTML generator of the dev server.  The document is the sequence of the  *)
(* pieces pushed onto it: fixed literals, the opening tag of a node with   *)
(* its attributes in iteration order, a text, or a closing tag.            *)

Lit(s) == [t |-> "lit", s |-> s]

OpenTag(tag, attrs) == [t |-> "open", tag |-> tag, attrs |-> attrs]

CloseTag(tag) == [t |-> "close", tag |-> tag]

RawText(s) == [t |-> "text", s |-> s]

DIV == <<"d", "i", "v">>

DataComponent == <<"d", "a", "t", "a", "-", "c", "o", "m", "p", "o", "n", "e", "n", "t">>

DataPrefix == <<"d", "a", "t", "a", "-">>

RECURSIVE node_to_html(_, _)
RECURSIVE nodes_to_html(_, _)

\* node_to_html that closes the wrapper of a Component with the component's name
node_to_html_closes_name(node, rank) ==
    CASE node.kind = "Element" ->
             <<OpenTag(node.tag, Iter(node.props, rank))>>
             \o nodes_to_html(node.children, rank)
             \o <<CloseTag(node.tag)>>
      [] node.kind = "Text" -> <<RawText(node.text)>>
      [] node.kind = "Component" ->
             <<OpenTag(DIV, <<<<DataComponent, node.name>>>>)>>
             \o nodes_to_html(node.children, rank)
             \o <<CloseTag(node.name)>>
      [] OTHER -> <<>>

node_to_html(node, rank) ==
    CASE node.kind = "Element" ->
             <<OpenTag(node.tag, Iter(node.props, rank))>>
             \o nodes_to_html(node.children, rank)
             \o <<CloseTag(node.tag)>>
      [] node.kind = "Text" -> <<RawText(node.text)>>
      [] node.kind = "Component" ->
             LET entries == Iter(node.props, rank)
             IN  <<OpenTag(DIV, <<<<DataComponent, node.name>>>>
                                \o [i \in 1..Len(entries) |->
                                        <<DataPrefix \o entries[i][1], entries[i][2]>>])>>
                 \o nodes_to_html(node.children, rank)
                 \o <<CloseTag(DIV)>>
      [] OTHER -> <<>>

\* for node in nodes { html.push_str(&node_to_html(node)?); }
nodes_to_html(forest, rank) ==
    IF forest = <<>> THEN <<>>
    ELSE node_to_html(Head(forest), rank) \o nodes_to_html(Tail(forest), rank)

DocumentHead ==
    << Lit("<!DOCTYPE html>"), Lit("<html lang='en'>"), Lit("<head>"),
       Lit("<meta charset='UTF-8'>"),
       Lit("<meta name='viewport' content='width=device-width, initial-scale=1.0'>"),
       Lit("<title>Ferrum App - Pure Rust</title>"),
       Lit("<style>"), Lit("../static/ferrum.css"), Lit("</style>"),
       Lit("</head>"), Lit("<body>"), Lit("<div id='ferrum-app'>") >>

DocumentTail == << Lit("</div>"), Lit("</body>"), Lit("</html>") >>

generate_html_from_nodes(forest, rank) ==
    Ok(DocumentHead \o nodes_to_html(forest, rank) \o DocumentTail)

----------------------------------------------------------------------------
(* Inputs                                                                  *)

\* the lines a source is made of, written with their leading whitespace
SourceLines ==
    {
      <<"d", "i", "v", "#", "a", ".", "b">>,
          \* 'div#a.b'
      <<"p", " ", "\"", "x", " ", "y", "\"">>,
          \* 'p "x y"'
      <<"x">>,
          \* 'x'
      <<" ", " ", "x">>,
          \* '  x'
      <<" ", " ", " ", " ", "y">>,
          \* '    y'
      <<"<", "b", "r", ">">>,
          \* '<br>'
      <<" ", " ", "<", "h", "r", ">">>,
          \* '  <hr>'
      <<"h", "r", "#", "x">>,
          \* 'hr#x'
      <<"d", "i", "v", " ", "a", "=", "\"", "1", "\"", " ", "b", "=", "\"", "2", "\"">>,
          \* 'div a="1" b="2"'
      <<"B", "(", "k", ":", " ", "v", ")">>,
          \* 'B(k: v)'
      <<" ", " ", "B", "(", "a", ":", " ", "1", ",", " ", "b", ":", " ", "2", ")">>,
          \* '  B(a: 1, b: 2)'
      <<"<", "d", "i", "v">>,
          \* '<div'
      <<"B", "(", "k", ":", " ", "f">>,
          \* 'B(k: f'
      <<"a", " ", "=", "\"">>,
          \* 'a ="'
      <<">", "<">>,
          \* '><'
      <<"<", ">">>,
          \* '<>'
      <<"/", "/", " ", "c">>,
          \* '// c'
      <<>>,
          \* ''
      <<"<", "p", " ", "k", "=", "\"", "v", "\"", " ", "j", "=", "\"", "w", "\"", ">">>,
          \* '<p k="v" j="w">'
      <<"d", " ", ".", "c", " ", ".", "e">>,
          \* 'd .c .e'
      <<" ", " ", "<", "<", ">">>,
          \* '  <<>'
      <<" ", " ", "p", ".", "c", " ", "\"", "w", "\"">>,
          \* '  p.c "w"'
      <<"d", " ", "k", "=", "v">>,
          \* 'd k=v'
      <<"<", "p", " ", "k", "=", "\"", ">">>
          \* '<p k=">'
    }

\* the largest number of lines of a source
MaxLines == 2

\* the text of a sequence of lines, each ended by a newline
RECURSIVE TextOf(_)
TextOf(ls) == IF ls = <<>> THEN <<>> ELSE Head(ls) \o <<"\n">> \o TextOf(Tail(ls))

\* section 8, scenario 6: div#app.container over an indented h1 and p
Scenario6 ==
    TextOf(<< <<"d", "i", "v", "#", "a", "p", "p", ".", "c", "o", "n", "t", "a", "i", "n", "e", "r">>,
              <<" ", " ", " ", " ", "h", "1", ".", "t", "i", "t", "l", "e", " ", "\"", "H", "e", "l", "l", "o", " ", "W", "o", "r", "l", "d", "\"">>,
              <<" ", " ", " ", " ", "p", ".", "t", "e", "x", "t", "-", "g", "r", "a", "y", "-", "6", "0", "0", " ", "\"", "W", "e", "l", "c", "o", "m", "e", "\"">> >>)

\* parser.rs, tests::test_simple_component
ScenarioButton ==
    TextOf(<< <<>>,
              <<"B", "u", "t", "t", "o", "n", "(", "o", "n", "c", "l", "i", "c", "k", ":", " ", "s", "e", "t", "_", "c", "o", "u", "n", "t", "(", "-", "1", ")", ")">>,
              <<" ", " ", " ", " ", "\"", "-", "\"">> >>)

\* parser_clean.rs, tests::test_state_binding_signal_access
ScenarioCount == TextOf(<< <<>>, <<"c", "o", "u", "n", "t">> >>)

\* parser_clean.rs, tests::test_state_binding_with_operation
ScenarioCountValue == TextOf(<< <<>>, <<"c", "o", "u", "n", "t", ".", "v", "a", "l", "u", "e">> >>)

\* parser_clean.rs, tests::test_import_parsing
ScenarioImport ==
    TextOf(<< <<>>,
              <<"i", "m", "p", "o", "r", "t", " ", "{", " ", "c", "r", "e", "a", "t", "e", "_", "s", "i", "g", "n", "a", "l", " ", "}", " ", "f", "r", "o", "m", " ", "\"", "f", "e", "r", "r", "u", "m", ":", "s", "t", "a", "t", "e", "\"">> >>)

\* formatter.rs, tests::test_format_preserves_structure
ScenarioNested ==
    TextOf(<< <<>>,
              <<"d", "i", "v">>,
              <<" ", " ", " ", " ", "h", "1", " ", "\"", "T", "i", "t", "l", "e", "\"">>,
              <<" ", " ", " ", " ", " ", " ", " ", " ", "p", " ", "\"", "T", "e", "x", "t", "\"">> >>)

\* an element with an id, two classes and one more attribute
ScenarioAttrs ==
    TextOf(<< <<"d", "#", "i", ".", "c", " ", ".", "e", " ", "k", "=", "\"", "v", "\"">> >>)

\* lines that give one key twice: a call, a bracketed and a shorthand element
ScenarioTwice ==
    TextOf(<< <<"B", "(", "a", ":", " ", "1", ",", " ", "a", ":", " ", "2", ")">>,
              <<" ", " ", "<", "p", " ", "k", "=", "\"", "v", "\"", " ", "k", "=", "\"", "w", "\"", ">">>,
              <<" ", " ", "d", "#", "i", " ", ".", "c", " ", "c", "l", "a", "s", "s", "=", "\"", "x", "\"", " ", "i", "d", "=", "\"", "j", "\"">> >>)

\* a tree indented by 2 columns per level: d over p and q, r beneath q
ScenarioSiblings ==
    TextOf(<< <<"d", "#", "a">>,
              <<" ", " ", "p", "#", "b">>,
              <<" ", " ", "q", "#", "c">>,
              <<" ", " ", " ", " ", "r", "#", "e">> >>)

Sources ==
    {TextOf(ls) : ls \in UNION {[1..n -> SourceLines] : n \in 1..MaxLines}}
    \cup {Scenario6, ScenarioButton, ScenarioCount, ScenarioCountValue,
          ScenarioImport, ScenarioNested, ScenarioAttrs, ScenarioTwice,
          ScenarioSiblings}

\* the formatters a caller can construct
Formatters == {DefaultFormatter, NewFormatter(2, " "), NewFormatter(1, "\t")}

----------------------------------------------------------------------------
(* A session of the front end on one source:                               *)
(*   pass 1   format(source) = parse, then serialize; HTML of parse(source)*)
(*   rerun    a second, independent run of format and HTML on the source   *)
(*   pass 2   the same on the text that pass 1 wrote                       *)
(* pc is the position of the session; todo, nodes and stack are the locals *)
(* of the running parse call (the lines not yet read, nodes, stack).       *)

None == [status |-> "none"]

Init ==
    /\ source \in Sources
    /\ fmt \in Formatters
    /\ pc = "parse"
    /\ pass = 1
    /\ todo = Lines(source)
    /\ nodes = <<>>
    /\ stack = <<>>
    /\ res = <<None, None>>
    /\ out = <<None, None>>
    /\ html = <<None, None>>
    /\ again = None
    /\ alt = <<>>
    /\ components = EmptyMap
    /\ current_indent = 0
    /\ ServerOff
    /\ SignalsOff

\* the result of the next iteration of the loop of parse
Iteration == ParseIteration(Head(todo), nodes, stack)

\* the locals of a parse call that has returned or aborted
Dropped ==
    /\ todo' = <<>>
    /\ nodes' = <<>>
    /\ stack' = <<>>

\* the three ways an iteration it of the loop of parse can end
Continue(it) ==
    /\ it.status = "ok"
    /\ todo' = Tail(todo)
    /\ nodes' = it.nodes
    /\ stack' = it.stack

ReturnErr(it) ==
    /\ it.status = "err"
    /\ res' = [res EXCEPT ![pass] = Err(it.msg)]

Abort(it) ==
    /\ it.status = "panic"
    /\ res' = [res EXCEPT ![pass] = Panic]

\* one iteration of the loop of parse that falls through to the next line
ParseLineOk ==
    /\ pc = "parse"
    /\ todo # <<>>
    /\ Continue(Iteration)
    /\ UNCHANGED <<source, fmt, pc, pass, res, out, html, again, alt, components, current_indent>>
    /\ UNCHANGED <<server, signals>>

\* parse_line(trimmed)? returns the error of the line to the caller of parse
ParseLineErr ==
    /\ pc = "parse"
    /\ todo # <<>>
    /\ ReturnErr(Iteration)
    /\ pc' = "parsed"
    /\ Dropped
    /\ UNCHANGED <<source, fmt, pass, out, html, again, alt, components, current_indent>>
    /\ UNCHANGED <<server, signals>>

\* a slice of the line panics: the call does not return
ParseLinePanic ==
    /\ pc = "parse"
    /\ todo # <<>>
    /\ Abort(Iteration)
    /\ pc' = "aborted"
    /\ Dropped
    /\ UNCHANGED <<source, fmt, pass, out, html, again, alt, components, current_indent>>
    /\ UNCHANGED <<server, signals>>

\* ParseReturn of a parser that keeps its nodes for the next call
ParseReturn_keeps_nodes ==
    /\ pc = "parse"
    /\ todo = <<>>
    /\ res' = [res EXCEPT ![pass] = Ok(nodes)]
    /\ pc' = "parsed"
    /\ stack' = <<>>
    /\ UNCHANGED <<source, fmt, pass, todo, nodes, out, html, again, alt, components, current_indent>>
    /\ UNCHANGED <<server, signals>>

\* Ok(nodes) after the last line
ParseReturn ==
    /\ pc = "parse"
    /\ todo = <<>>
    /\ res' = [res EXCEPT ![pass] = Ok(nodes)]
    /\ pc' = "parsed"
    /\ nodes' = <<>>
    /\ stack' = <<>>
    /\ UNCHANGED <<source, fmt, pass, todo, out, html, again, alt, components, current_indent>>
    /\ UNCHANGED <<server, signals>>

\* FerrumFormatter::format, parse failed: map_err(|e| e.to_string())?
FormatErr ==
    /\ pc = "parsed"
    /\ res[pass].status = "err"
    /\ out' = [out EXCEPT ![pass] = format_parsed(fmt, res[pass], <<>>)]
    /\ pc' = "done"
    /\ UNCHANGED <<source, fmt, pass, todo, nodes, stack, res, html, again, alt, components, current_indent>>
    /\ UNCHANGED <<server, signals>>

\* FerrumFormatter::format, parse succeeded: the nodes are serialized
FormatOk ==
    /\ pc = "parsed"
    /\ res[pass].status = "ok"
    /\ \E rank \in Rankings(res[pass].value) :
           out' = [out EXCEPT ![pass] = format_parsed(fmt, res[pass], rank)]
    /\ pc' = "formatted"
    /\ UNCHANGED <<source, fmt, pass, todo, nodes, stack, res, html, again, alt, components, current_indent>>
    /\ UNCHANGED <<server, signals>>

\* generate_html_from_nodes on the forest of the pass
GenerateHtml ==
    /\ pc = "formatted"
    /\ \E rank \in Rankings(res[pass].value) :
           html' = [html EXCEPT ![pass] = generate_html_from_nodes(res[pass].value, rank)]
    /\ pc' = IF pass = 1 THEN "generated" ELSE "done"
    /\ UNCHANGED <<source, fmt, pass, todo, nodes, stack, res, out, again, alt, components, current_indent>>
    /\ UNCHANGED <<server, signals>>

\* what a run of format and of the HTML generator gives for the result parsed
\* of parse
RunOn(parsed) ==
    \E r1, r2 \in Rankings(parsed.value) :
        again' = [forest |-> parsed,
                  text   |-> format_parsed(fmt, parsed, r1),
                  html   |-> generate_html_from_nodes(parsed.value, r2)]

\* a second run of parse, format and the HTML generator on the same source
Rerun ==
    /\ pc = "generated"
    /\ RunOn(parse(source))
    /\ pc' = "rerun"
    /\ UNCHANGED <<source, fmt, pass, todo, nodes, stack, res, out, html, alt, components, current_indent>>
    /\ UNCHANGED <<server, signals>>

\* the text written by pass 1 is the input of pass 2
Reparse ==
    /\ pc = "rerun"
    /\ pass' = 2
    /\ todo' = Lines(out[1].value)
    /\ pc' = "parse"
    /\ UNCHANGED <<source, fmt, nodes, stack, res, out, html, again, alt, components, current_indent>>
    /\ UNCHANGED <<server, signals>>

Next ==
    \/ ParseLineOk
    \/ ParseLineErr
    \/ ParseLinePanic
    \/ ParseReturn
    \/ FormatErr
    \/ FormatOk
    \/ GenerateHtml
    \/ Rerun
    \/ Reparse

Spec == Init /\ [][Next]_vars

----------------------------------------------------------------------------
(* Shorthand and explicit form of one element, parsed one after the other  *)

\* the characters of the generated tokens, and their largest length
TokenChars == {"a", "-", ":", ")", "/"}

MaxToken == 1

\* the generated tokens, the tokens of the example, and the comment marker
Tokens ==
    UNION {[1..n -> TokenChars] : n \in 1..MaxToken}
    \cup {<<"/", "/">>, DIV, <<"a", "p", "p">>, <<"c", "o", "n", "t", "a", "i", "n", "e", "r">>}

\* t#i.c
ShorthandLine(t, i, c) == t \o <<"#">> \o i \o <<".">> \o c

\* t id="i" class="c"
ExplicitLine(t, i, c) ==
    t \o <<" ">> \o ID \o <<"=", "\"">> \o i \o <<"\"", " ">>
      \o CLASS \o <<"=", "\"">> \o c \o <<"\"">>

PairInit ==
    /\ \E t, i, c \in Tokens :
           /\ source = TextOf(<<ShorthandLine(t, i, c)>>)
           /\ alt = TextOf(<<ExplicitLine(t, i, c)>>)
    /\ fmt = DefaultFormatter
    /\ pc = "parse"
    /\ pass = 1
    /\ todo = Lines(source)
    /\ nodes = <<>>
    /\ stack = <<>>
    /\ res = <<None, None>>
    /\ out = <<None, None>>
    /\ html = <<None, None>>
    /\ again = None
    /\ components = EmptyMap
    /\ current_indent = 0
    /\ ServerOff
    /\ SignalsOff

\* the second call of parse, on the explicit form
ParseAlt ==
    /\ pc = "parsed"
    /\ pass = 1
    /\ pass' = 2
    /\ todo' = Lines(alt)
    /\ pc' = "parse"
    /\ UNCHANGED <<source, fmt, nodes, stack, res, out, html, again, alt, components, current_indent>>
    /\ UNCHANGED <<server, signals>>

\* no line of a pair makes parse_line fail (PairLinesParse), so the two
\* failing ends of an iteration are left out
PairNext ==
    \/ ParseLineOk
    \/ ParseReturn
    \/ ParseAlt

PairSpec == PairInit /\ [][PairNext]_vars

\* t#i.c.e
SeveralClassesLine(t, i, c, e) == t \o <<"#">> \o i \o <<".">> \o c \o <<".">> \o e

\* t id="i" class="c e"
ExplicitClassesLine(t, i, c, e) == ExplicitLine(t, i, c \o <<" ">> \o e)

\* parse on a shorthand line with two classes, then on its explicit form
ClassesInit ==
    /\ \E t, i, c, e \in Tokens :
           /\ source = TextOf(<<SeveralClassesLine(t, i, c, e)>>)
           /\ alt = TextOf(<<ExplicitClassesLine(t, i, c, e)>>)
    /\ fmt = DefaultFormatter
    /\ pc = "parse"
    /\ pass = 1
    /\ todo = Lines(source)
    /\ nodes = <<>>
    /\ stack = <<>>
    /\ res = <<None, None>>
    /\ out = <<None, None>>
    /\ html = <<None, None>>
    /\ again = None
    /\ components = EmptyMap
    /\ current_indent = 0
    /\ ServerOff
    /\ SignalsOff

ClassesSpec == ClassesInit /\ [][PairNext]_vars

----------------------------------------------------------------------------
(* Three calls of parse on one FerrumParser: on a first input, on a second *)
(* input, and on the first input again.                                    *)

\* the inputs of the calls
ReuseSources ==
    {TextOf(<<l>>) : l \in SourceLines} \cup {Scenario6, ScenarioButton, ScenarioNested}

ReuseInit ==
    /\ source \in ReuseSources
    /\ alt \in ReuseSources
    /\ fmt = DefaultFormatter
    /\ pc = "parse"
    /\ pass = 1
    /\ todo = Lines(source)
    /\ nodes = <<>>
    /\ stack = <<>>
    /\ res = <<None, None, None>>
    /\ out = <<None, None>>
    /\ html = <<None, None>>
    /\ again = None
    /\ components = EmptyMap
    /\ current_indent = 0
    /\ ServerOff
    /\ SignalsOff

\* the third call, on the first input again
ParseSourceAgain ==
    /\ pc = "parsed"
    /\ pass = 2
    /\ pass' = 3
    /\ todo' = Lines(source)
    /\ pc' = "parse"
    /\ UNCHANGED <<source, fmt, nodes, stack, res, out, html, again, alt, components, current_indent>>
    /\ UNCHANGED <<server, signals>>

ReuseNext ==
    \/ ParseLineOk
    \/ ParseLineErr
    \/ ParseLinePanic
    \/ ParseReturn
    \/ ParseAlt
    \/ ParseSourceAgain

ReuseSpec == ReuseInit /\ [][ReuseNext]_vars

----------------------------------------------------------------------------
(* Properties                                                              *)

\* the text that pass p reads
Input(p) == IF p = 1 THEN source ELSE out[1].value

\* the call of parse of pass p has ended: it returned or it aborted
ParseEnded(p) == res[p] # None

\* the call of format of pass 2 has ended, the one of pass 1 having returned Ok
SecondFormatEnded ==
    /\ pass = 2
    /\ pc \in {"formatted", "done", "aborted"}
    /\ out[1].status = "ok"

\* C1: formatting is idempotent: when format(s) returns Ok(t), format(t)
\* returns Ok(t) again, byte for byte.
FormatIdempotent == SecondFormatEnded => out[2] = out[1]

\* two forests have the same shape: the same kinds in the same order, the same
\* tag, name or text, the same attributes and, node by node, the same children
RECURSIVE SameShape(_, _)
SameShape(f, g) ==
    /\ Len(f) = Len(g)
    /\ \A i \in 1..Len(f) :
           /\ f[i].kind = g[i].kind
           /\ CASE f[i].kind = "Text" -> f[i].text = g[i].text
                [] f[i].kind = "Element" ->
                       /\ f[i].tag = g[i].tag
                       /\ f[i].props = g[i].props
                       /\ SameShape(f[i].children, g[i].children)
                [] f[i].kind = "Component" ->
                       /\ f[i].name = g[i].name
                       /\ f[i].props = g[i].props
                       /\ SameShape(f[i].children, g[i].children)

\* C2: parse(format(s)) has the same shape as parse(s): kinds, tags and names,
\* numbers of children, texts and attribute sets agree node by node.
FormatPreservesShape ==
    (out[1].status = "ok" /\ ParseEnded(2))
        => /\ res[2].status = "ok"
           /\ SameShape(res[1].value, res[2].value)

IsElement(node, tag) == node.kind = "Element" /\ node.tag = tag

\* C3: the scenario input parses to exactly one top-level Element div with
\* the attributes id: app and class: container, whose children are exactly two
\* Elements, h1 and then p.
ScenarioHasChildren ==
    (source = Scenario6 /\ ParseEnded(1))
        => /\ res[1].status = "ok"
           /\ Len(res[1].value) = 1
           /\ IsElement(res[1].value[1], DIV)
           /\ res[1].value[1].props = {<<ID, <<"a", "p", "p">>>>, <<CLASS, <<"c", "o", "n", "t", "a", "i", "n", "e", "r">>>>}
           /\ Len(res[1].value[1].children) = 2
           /\ res[1].value[1].children[1].kind = "Element"
           /\ StartsWith(res[1].value[1].children[1].tag, <<"h", "1">>)
           /\ res[1].value[1].children[2].kind = "Element"
           /\ StartsWith(res[1].value[1].children[2].tag, <<"p">>)

\* every closing tag closes the tag opened last and not yet closed, and no tag
\* stays open; open is the sequence of the tags that are open
RECURSIVE Balanced(_, _)
Balanced(pieces, open) ==
    IF pieces = <<>> THEN open = <<>>
    ELSE CASE Head(pieces).t = "open" ->
                  Balanced(Tail(pieces), Append(open, Head(pieces).tag))
           [] Head(pieces).t = "close" ->
                  /\ open # <<>>
                  /\ open[Len(open)] = Head(pieces).tag
                  /\ Balanced(Tail(pieces), SubSeq(open, 1, Len(open) - 1))
           [] OTHER -> Balanced(Tail(pieces), open)

\* C4: on every forest parse returns, the HTML generator returns Ok with a
\* document that starts with <!DOCTYPE html> and closes every tag it opens for
\* an Element or a Component, in properly nested order.
HtmlWellFormed ==
    /\ pc = "formatted" => ENABLED GenerateHtml
    /\ \A p \in {1, 2} :
           html[p] # None
               => /\ html[p].status = "ok"
                  /\ Head(html[p].value) = Lit("<!DOCTYPE html>")
                  /\ Balanced(html[p].value, <<>>)

\* C4 witness: a document with the tags of an Element and of a Component
HtmlOfElementAndComponent ==
    /\ html[1] # None
    /\ \E i, j \in 1..Len(html[1].value) :
           /\ html[1].value[i].t = "open"
           /\ html[1].value[i].tag = <<"b", "r">>
           /\ html[1].value[j].t = "open"
           /\ html[1].value[j].tag = DIV
           /\ html[1].value[j].attrs[1][1] = DataComponent

IsSelfClosing(node) == node.kind = "Element" /\ node.tag \in SelfClosingTags

\* no self-closing element of a forest has a child
RECURSIVE NoSelfClosingParent(_)
NoSelfClosingParent(forest) ==
    \A i \in 1..Len(forest) :
        forest[i].kind # "Text"
            => /\ IsSelfClosing(forest[i]) => forest[i].children = <<>>
               /\ NoSelfClosingParent(forest[i].children)

\* C5: an Element whose tag is input, img, br, hr, meta or link is never
\* pushed on the parser's stack and never has a child, neither in the forest
\* parse returns nor in the parser's own copies.
SelfClosingNeverParent ==
    /\ \A i \in 1..Len(stack) : ~IsSelfClosing(stack[i])
    /\ NoSelfClosingParent(stack)
    /\ NoSelfClosingParent(nodes)
    /\ \A p \in {1, 2} : res[p].status = "ok" => NoSelfClosingParent(res[p].value)

\* C5 witness: parse has returned for a source whose first line is a
\* self-closing element and whose second line is indented beneath it
IndentedBeneathSelfClosing ==
    /\ res[1].status = "ok"
    /\ Len(Lines(source)) = 2
    /\ Len(res[1].value) = 2
    /\ IsSelfClosing(res[1].value[1])
    /\ IndentOf(Lines(source)[2]) > IndentOf(Lines(source)[1])

\* the attribute k of a node as an option: <<value>>, or <<>> when absent
Attribute(node, k) == IF HasKey(node.props, k) THEN <<Get(node.props, k)>> ELSE <<>>

\* no line of a pair makes parse_line fail
PairLinesParse == (pc = "parse" /\ todo # <<>>) => Iteration.status = "ok"

\* C6: for tokens t, i and c the lines t#i.c and t id="i" class="c" parse to
\* Elements with the same tag, the same id and the same class.
ShorthandEqualsExplicit ==
    /\ PairLinesParse
    /\ (pc = "parsed" /\ pass = 2)
           => /\ res[1].status = "ok"
              /\ res[2].status = "ok"
              /\ Len(res[1].value) = Len(res[2].value)
              /\ \A n \in 1..Len(res[1].value) :
                     /\ res[1].value[n].kind = "Element"
                     /\ res[2].value[n].kind = "Element"
                     /\ res[1].value[n].tag = res[2].value[n].tag
                     /\ Attribute(res[1].value[n], ID) = Attribute(res[2].value[n], ID)
                     /\ Attribute(res[1].value[n], CLASS) = Attribute(res[2].value[n], CLASS)

\* C6 witness: both forms of div, app, container have been parsed
DivAppContainerParsed ==
    /\ pc = "parsed"
    /\ pass = 2
    /\ source = TextOf(<<ShorthandLine(DIV, <<"a", "p", "p">>, <<"c", "o", "n", "t", "a", "i", "n", "e", "r">>)>>)
    /\ res[2].value = <<Element(DIV, {<<ID, <<"a", "p", "p">>>>, <<CLASS, <<"c", "o", "n", "t", "a", "i", "n", "e", "r">>>>}, <<>>)>>

\* C7: a second run on the same source gives the same forest, the same
\* formatted text and the same HTML as the first.
Deterministic ==
    again # None
        => /\ again.forest = res[1]
           /\ again.text = out[1]
           /\ again.html = html[1]

\* C8: parse returns Ok or Err on every input; it never panics.
ParseNeverPanics == \A p \in {1, 2} : res[p].status # "panic"

\* a malformed bracketed element: the line contains '<', is not a component
\* call and has no '>'
MalformedBracketed(line) ==
    /\ ~Skipped(line)
    /\ Contains(Trim(line), "<")
    /\ ~(Contains(Trim(line), "(") /\ EndsWith(Trim(line), <<")">>))
    /\ ~Contains(Trim(line), ">")

\* the lines before line k are skipped or parse successfully
EarlierLinesParse(ls, k) ==
    \A j \in 1..(k - 1) : Skipped(ls[j]) \/ parse_line(Trim(ls[j])).status = "ok"

\* the call of pass p returned an error whose message contains the line
FailedOn(p, line) == res[p].status = "err" /\ IsInfix(Trim(line), res[p].msg)

\* C9: a malformed bracketed element, after any number of lines that parsed
\* successfully, makes parse return an error whose message contains the
\* trimmed text of the line, and no forest.
MalformedBracketedFails ==
    \A p \in {1, 2} :
        ParseEnded(p)
            => \A k \in 1..Len(Lines(Input(p))) :
                   (/\ MalformedBracketed(Lines(Input(p))[k])
                    /\ EarlierLinesParse(Lines(Input(p)), k))
                       => FailedOn(p, Lines(Input(p))[k])

\* C9 witness: parse failed on a malformed second line after a first line
\* that gave a node
FailedAfterParsedLine ==
    /\ res[1].status = "err"
    /\ Len(Lines(source)) = 2
    /\ ~Skipped(Lines(source)[1])
    /\ MalformedBracketed(Lines(source)[2])

\* the number of occurrences of c in s
RECURSIVE Count(_, _)
Count(s, c) ==
    IF s = <<>> THEN 0 ELSE (IF Head(s) = c THEN 1 ELSE 0) + Count(Tail(s), c)

\* a malformed component call: the line contains '(' and its parentheses are
\* not balanced
MalformedCall(line) ==
    /\ ~Skipped(line)
    /\ Contains(Trim(line), "(")
    /\ Count(Trim(line), "(") # Count(Trim(line), ")")

\* C10: a malformed component call makes parse fail with a syntax error that
\* identifies the text of the line.
MalformedCallFails ==
    \A p \in {1, 2} :
        ParseEnded(p)
            => \A k \in 1..Len(Lines(Input(p))) :
                   (/\ MalformedCall(Lines(Input(p))[k])
                    /\ EarlierLinesParse(Lines(Input(p)), k))
                       => FailedOn(p, Lines(Input(p))[k])

----------------------------------------------------------------------------
(* The line a running parse call reads next, and the branch of parse_line  *)
(* that takes it.                                                          *)

Reading == pc = "parse" /\ todo # <<>> /\ ~Skipped(Head(todo))

NextLine == Trim(Head(todo))

\* the result of parse_line on the line read next
NextNode == parse_line(NextLine)

IsCall(line) == Contains(line, "(") /\ EndsWith(line, <<")">>)

\* a bracketed line whose '<' comes before its '>'
IsBracketed(line) ==
    ~IsCall(line) /\ Find(line, "<") # 0 /\ Find(line, "<") < Find(line, ">")

IsShorthand(line) ==
    ~IsCall(line) /\ ~Contains(line, "<") /\ ContainsAny(line, {" ", "#", ".", "("})

\* the tokens behind the tag of an element line that are not .class tokens
AttrTokens(line) ==
    IF IsBracketed(line)
    THEN SplitWhitespace(
             SplitOnce(SubSeq(line, Find(line, "<") + 1, Find(line, ">") - 1), " ")[2])
    ELSE IF IsShorthand(line)
    THEN SelectSeq(Tail(SplitWhitespace(line)), LAMBDA part : ~StartsWith(part, <<".">>))
    ELSE <<>>

TokenKey(part) == SplitOnce(part, "=")[1]

TokenValue(part) == SplitOnce(part, "=")[2]

\* a value enclosed in a pair of double quotes
Enclosed(value) == Len(value) >= 2 /\ value[1] = "\"" /\ value[Len(value)] = "\""

WellFormedToken(part) == Contains(part, "=") /\ Enclosed(TokenValue(part))

UnquotedToken(part) == Contains(part, "=") /\ ~Enclosed(TokenValue(part))

\* C11: an element line, bracketed or shorthand, that carries a key=value
\* token whose value is not enclosed in a pair of double quotes still parses
\* to its Element; the key of that token is absent from the attributes
\* (unless another part of the line writes it) and every well-formed
\* key="value" token of the line is kept.
UnquotedTokenDropped ==
    LET tokens == AttrTokens(NextLine)
        wellFormed == {i \in 1..Len(tokens) : WellFormedToken(tokens[i])}
        unquoted == {i \in 1..Len(tokens) : UnquotedToken(tokens[i])}
    IN  (Reading /\ unquoted # {}) =>
            /\ NextNode.status = "ok"
            /\ NextNode.value.kind = "Element"
            /\ \A i \in unquoted :
                   \/ TokenKey(tokens[i]) \in {ID, CLASS}
                   \/ \E j \in wellFormed : TokenKey(tokens[j]) = TokenKey(tokens[i])
                   \/ ~HasKey(NextNode.value.props, TokenKey(tokens[i]))
            /\ \A j \in wellFormed : HasKey(NextNode.value.props, TokenKey(tokens[j]))

----------------------------------------------------------------------------
(* The line a running parse call has read last.                            *)

\* the number of lines the running call has read
Processed == Len(Lines(Input(pass))) - Len(todo)

JustRead == pc = "parse" /\ Processed > 0

LastLine == Trim(Lines(Input(pass))[Processed])

\* the pieces of a line of the form Name(k1: v1, ..., kn: vn)
CallName(line) == Trim(SubSeq(line, 1, Find(line, "(") - 1))

CallSegments(line) == Split(SubSeq(line, Find(line, "(") + 1, Len(line) - 1), ",")

SegmentKey(seg) == Trim(SplitOnce(Trim(seg), ":")[1])

SegmentValue(seg) == Trim(SplitOnce(Trim(seg), ":")[2])

\* props maps the key of every segment that has a ':' to the trimmed text
\* after the first ':' of the last segment with that key, and nothing else
CallAttributes(line, props) ==
    LET segs == CallSegments(line)
        keyed == {i \in 1..Len(segs) : Contains(segs[i], ":")}
    IN  /\ Keys(props) = {SegmentKey(segs[i]) : i \in keyed}
        /\ \A i \in keyed :
               (\A j \in keyed : j > i => SegmentKey(segs[j]) # SegmentKey(segs[i]))
                   => Get(props, SegmentKey(segs[i])) = SegmentValue(segs[i])

IsComponentOf(node, line) ==
    /\ node.kind = "Component"
    /\ node.name = CallName(line)
    /\ CallAttributes(line, node.props)

\* the first line that is not skipped, 0 if there is none
FirstRead(ls) ==
    IF \E k \in 1..Len(ls) : ~Skipped(ls[k])
    THEN CHOOSE k \in 1..Len(ls) : ~Skipped(ls[k]) /\ \A j \in 1..(k - 1) : Skipped(ls[j])
    ELSE 0

\* one component call with every other line indented beneath it
CallOverIndented(ls) ==
    /\ FirstRead(ls) # 0
    /\ IsCall(Trim(ls[FirstRead(ls)]))
    /\ \A j \in (FirstRead(ls) + 1)..Len(ls) :
           Skipped(ls[j]) \/ IndentOf(ls[j]) > IndentOf(ls[FirstRead(ls)])

\* C12: a line of the form Name(k1: v1, ..., kn: vn) parses to a Component
\* whose name is the trimmed text before the first '(' and whose attributes
\* map each key to the trimmed text after the first ':' of its
\* comma-separated segment, nested parentheses kept verbatim; an input made
\* of one such line and indented lines beneath it that parse returns exactly
\* one top-level node, that Component.
ComponentCallParsed ==
    /\ (JustRead /\ IsCall(LastLine))
           => /\ stack # <<>>
              /\ IsComponentOf(stack[Len(stack)], LastLine)
    /\ (/\ pc \in {"parsed", "aborted"}
        /\ CallOverIndented(Lines(Input(pass)))
        /\ EarlierLinesParse(Lines(Input(pass)), Len(Lines(Input(pass))) + 1))
           => /\ res[pass].status = "ok"
              /\ Len(res[pass].value) = 1
              /\ IsComponentOf(res[pass].value[1],
                               Trim(Lines(Input(pass))[FirstRead(Lines(Input(pass)))]))

\* the Button call of tests::test_simple_component, with its nested
\* parentheses, returned as the only top-level node
ButtonCallParsed ==
    /\ source = ScenarioButton
    /\ res[1].status = "ok"
    /\ Len(res[1].value) = 1
    /\ res[1].value[1].kind = "Component"
    /\ res[1].value[1].name = <<"B", "u", "t", "t", "o", "n">>
    /\ res[1].value[1].props =
           {<< <<"o", "n", "c", "l", "i", "c", "k">>,
               <<"s", "e", "t", "_", "c", "o", "u", "n", "t", "(", "-", "1", ")">> >>}

\* C13: the quoted-string line "-" indented beneath the call
\* Button(onclick: set_count(-1)) becomes a Text child holding the string
\* without its quotes: parse returns one Component Button that has exactly
\* one child, Text(-).
ButtonHasTextChild ==
    (source = ScenarioButton /\ ParseEnded(1))
        => /\ res[1].status = "ok"
           /\ Len(res[1].value) = 1
           /\ res[1].value[1].kind = "Component"
           /\ res[1].value[1].name = <<"B", "u", "t", "t", "o", "n">>
           /\ res[1].value[1].children = <<Text(<<"-">>)>>

\* the call of parse on the source returned exactly this forest
Returned(forest) == res[1] = Ok(forest)

\* C14: a bare identifier line parses to the state binding of that signal
\* with an empty member, a line signal.member to the binding of that signal
\* and member; count and count.value each give exactly one node.
StateBindingParsed ==
    /\ (source = ScenarioCount /\ ParseEnded(1))
           => Returned(<<StateBinding(<<"c", "o", "u", "n", "t">>, <<>>)>>)
    /\ (source = ScenarioCountValue /\ ParseEnded(1))
           => Returned(<<StateBinding(<<"c", "o", "u", "n", "t">>,
                                      <<"v", "a", "l", "u", "e">>)>>)

\* C15: the line import { create_signal } from "ferrum:state" parses to
\* exactly one Import node that lists the name create_signal and the source
\* ferrum:state.
ImportParsed ==
    (source = ScenarioImport /\ ParseEnded(1))
        => Returned(<<Import(<< <<"c", "r", "e", "a", "t", "e", "_", "s", "i", "g", "n", "a", "l">> >>,
                             <<"f", "e", "r", "r", "u", "m", ":", "s", "t", "a", "t", "e">>)>>)

\* the number of lines of ls that parse does not skip
RECURSIVE ReadLines(_)
ReadLines(ls) ==
    IF ls = <<>> THEN 0 ELSE (IF Skipped(Head(ls)) THEN 0 ELSE 1) + ReadLines(Tail(ls))

\* the call of format of pass p has ended
FormatEnded(p) == out[p] # None

\* line k of the text is t behind the indentation of depth d
LineAtDepth(text, k, d, t) ==
    /\ Len(Lines(text)) >= k
    /\ StartsWith(Lines(text)[k], indent_string(fmt, d) \o t)

\* C16: format writes one output line per node of the source, so every
\* source line that is neither blank nor a comment has its own output line,
\* behind depth x indent_size copies of indent_char: the nested lines div,
\* h1 "Title", p "Text" give lines that start with div, h1 and p at depths
\* 0, 1 and 2, and the text written for the scenario contains
\* div#app.container, h1.title and p.text-gray-600.
FormatWritesEveryLine ==
    /\ \A p \in {1, 2} :
           (FormatEnded(p) /\ out[p].status = "ok")
               => Len(Lines(out[p].value)) = ReadLines(Lines(Input(p)))
    /\ (source = ScenarioNested /\ FormatEnded(1))
           => /\ out[1].status = "ok"
              /\ LineAtDepth(out[1].value, 1, 0, <<"d", "i", "v">>)
              /\ LineAtDepth(out[1].value, 2, 1, <<"h", "1">>)
              /\ LineAtDepth(out[1].value, 3, 2, <<"p">>)
    /\ (source = Scenario6 /\ FormatEnded(1))
           => /\ out[1].status = "ok"
              /\ IsInfix(<<"d", "i", "v", "#", "a", "p", "p", ".", "c", "o", "n", "t", "a", "i", "n", "e", "r">>,
                         out[1].value)
              /\ IsInfix(<<"h", "1", ".", "t", "i", "t", "l", "e">>, out[1].value)
              /\ IsInfix(<<"p", ".", "t", "e", "x", "t", "-", "g", "r", "a", "y", "-", "6", "0", "0">>,
                         out[1].value)

\* the nodes of a forest in depth-first pre-order, each with its depth
RECURSIVE Preorder(_, _)
Preorder(forest, depth) ==
    IF forest = <<>> THEN <<>>
    ELSE <<[node |-> Head(forest), depth |-> depth]>>
         \o (IF Head(forest).kind \in {"Element", "Component"}
             THEN Preorder(Head(forest).children, depth + 1)
             ELSE <<>>)
         \o Preorder(Tail(forest), depth)

\* .c for each token
RECURSIVE Dots(_)
Dots(tokens) == IF tokens = <<>> THEN <<>> ELSE <<".">> \o Head(tokens) \o Dots(Tail(tokens))

\*  key="value" for each key of the order
RECURSIVE KeyValues(_, _)
KeyValues(props, order) ==
    IF order = <<>> THEN <<>>
    ELSE <<" ">> \o Head(order) \o <<"=", "\"">> \o Get(props, Head(order)) \o <<"\"">>
         \o KeyValues(props, Tail(order))

\* the line of an Element whose other attributes are written in the order
ElementLine(node, order) ==
    node.tag
    \o (IF HasKey(node.props, ID) THEN <<"#">> \o Get(node.props, ID) ELSE <<>>)
    \o (IF HasKey(node.props, CLASS)
        THEN Dots(SplitWhitespace(Get(node.props, CLASS)))
        ELSE <<>>)
    \o KeyValues(node.props, order)

\* C17: format renders an Element as its tag, then #id if an id attribute is
\* present, then .c for each whitespace-separated token of the class
\* attribute in order, then  key="value" for every other attribute (in some
\* order), then a newline; id and class are never also written as
\* key="value" pairs.
ElementRendered ==
    \A p \in {1, 2} :
        (FormatEnded(p) /\ out[p].status = "ok")
            => LET pre == Preorder(res[p].value, 0)
                   ls  == Lines(out[p].value)
               IN  /\ Len(ls) = Len(pre)
                   /\ \A i \in 1..Len(pre) :
                          pre[i].node.kind = "Element"
                              => \E order \in Perms(Keys(pre[i].node.props) \ {ID, CLASS}) :
                                     ls[i] = indent_string(fmt, pre[i].depth)
                                             \o ElementLine(pre[i].node, order)

\* an Element with an id, two classes and another attribute has been written
IdClassesAndAttributeWritten ==
    /\ source = ScenarioAttrs
    /\ out[1] = Ok(<<"d", "#", "i", ".", "c", ".", "e", " ", "k", "=", "\"", "v", "\"", "\n">>)

\* pieces i, i + 1 and i + 2 of the document are <tag class='c'>text</tag>
TextElementAt(doc, i, tag, c, text) ==
    /\ i + 2 <= Len(doc)
    /\ doc[i] = OpenTag(tag, <<<<CLASS, c>>>>)
    /\ doc[i + 1] = RawText(text)
    /\ doc[i + 2] = CloseTag(tag)

\* C18: the HTML generator renders each Element as <tag k='v' ...>, its
\* rendered children and </tag>: the document generated for the scenario
\* input contains <div id='app' class='container'> and, nested inside it,
\* <h1 class='title'>Hello World</h1> and
\* <p class='text-gray-600'>Welcome</p>.
ScenarioHtmlNested ==
    (source = Scenario6 /\ html[1] # None)
        => /\ html[1].status = "ok"
           /\ \E a, b, c, d \in 1..Len(html[1].value) :
                  /\ a < b /\ b + 2 < c /\ c + 2 < d
                  /\ html[1].value[a] = OpenTag(DIV, << <<ID, <<"a", "p", "p">>>>, <<CLASS, <<"c", "o", "n", "t", "a", "i", "n", "e", "r">>>> >>)
                  /\ TextElementAt(html[1].value, b, <<"h", "1">>, <<"t", "i", "t", "l", "e">>, <<"H", "e", "l", "l", "o", " ", "W", "o", "r", "l", "d">>)
                  /\ TextElementAt(html[1].value, c, <<"p">>, <<"t", "e", "x", "t", "-", "g", "r", "a", "y", "-", "6", "0", "0">>, <<"W", "e", "l", "c", "o", "m", "e">>)
                  /\ html[1].value[d] = CloseTag(DIV)

\* a shorthand line whose first token is tag.cls, without '#', and whose
\* other tokens name no class
DottedTagLine(line) ==
    /\ IsShorthand(line)
    /\ LET tokens == SplitWhitespace(line)
       IN  /\ ~Contains(tokens[1], "#")
           /\ Count(tokens[1], ".") = 1
           /\ SplitOnce(tokens[1], ".")[1] # <<>>
           /\ SplitOnce(tokens[1], ".")[2] # <<>>
           /\ \A i \in 2..Len(tokens) :
                  ~StartsWith(tokens[i], <<".">>) /\ TokenKey(tokens[i]) # CLASS

\* C19: the first token of a shorthand line is split into tag and class also
\* when no id is given: tag.cls parses to an Element with the tag tag and the
\* class attribute cls (p.text-gray-600 "Welcome" gives the tag p and the
\* class text-gray-600).
DottedTagSplit ==
    (Reading /\ DottedTagLine(NextLine))
        => /\ NextNode.status = "ok"
           /\ NextNode.value.kind = "Element"
           /\ NextNode.value.tag = SplitOnce(SplitWhitespace(NextLine)[1], ".")[1]
           /\ Attribute(NextNode.value, CLASS)
                  = <<SplitOnce(SplitWhitespace(NextLine)[1], ".")[2]>>

\* the tag, id and classes that the shorthand line of the source names
SourceTag == SplitOnce(Lines(source)[1], "#")[1]

SourceId == SplitOnce(SplitOnce(Lines(source)[1], "#")[2], ".")[1]

SourceClasses == Split(SplitOnce(SplitOnce(Lines(source)[1], "#")[2], ".")[2], ".")

\* the forest is one Element with this tag, id and class
OneElement(forest, tag, id, class) ==
    /\ Len(forest) = 1
    /\ forest[1].kind = "Element"
    /\ forest[1].tag = tag
    /\ Attribute(forest[1], ID) = <<id>>
    /\ Attribute(forest[1], CLASS) = <<class>>

\* C20: the shorthand line tag#id.c1.c2 parses to the class value "c1 c2",
\* a space-separated token list, and the explicit line
\* tag id="id" class="c1 c2" parses to the same tag, id and class.
SeveralClassesNormalized ==
    (pc = "parsed" /\ pass = 2 /\ ~Skipped(Lines(source)[1]))
        => /\ res[1].status = "ok"
           /\ res[2].status = "ok"
           /\ OneElement(res[1].value, SourceTag, SourceId, Join(SourceClasses, <<" ">>))
           /\ OneElement(res[2].value, SourceTag, SourceId, Join(SourceClasses, <<" ">>))

----------------------------------------------------------------------------
(* The assignments of attributes that a line makes, in the order of the    *)
(* line.                                                                   *)

\* the text between the quotes of an enclosed value
Inner(value) == SubSeq(value, 2, Len(value) - 1)

\* the assignment of one token behind the tag: .c or key="value"
RECURSIVE TokenAssignments(_)
TokenAssignments(tokens) ==
    IF tokens = <<>> THEN <<>>
    ELSE (IF StartsWith(Head(tokens), <<".">>)
          THEN << <<CLASS, Tail(Head(tokens))>> >>
          ELSE IF WellFormedToken(Head(tokens))
          THEN << <<TokenKey(Head(tokens)), Inner(TokenValue(Head(tokens)))>> >>
          ELSE <<>>)
         \o TokenAssignments(Tail(tokens))

\* the id and the class that the first token tag#id.class of a line gives
FirstTokenAssignments(first) ==
    LET rest  == SplitOnce(first, "#")[2]
        id    == SplitOnce(rest, ".")[1]
        class == SplitOnce(rest, ".")[2]
    IN  (IF id # <<>> THEN << <<ID, id>> >> ELSE <<>>)
        \o (IF class # <<>> THEN << <<CLASS, class>> >> ELSE <<>>)

RECURSIVE SegmentAssignments(_)
SegmentAssignments(segs) ==
    IF segs = <<>> THEN <<>>
    ELSE (IF Contains(Head(segs), ":")
          THEN << <<SegmentKey(Head(segs)), SegmentValue(Head(segs))>> >>
          ELSE <<>>)
         \o SegmentAssignments(Tail(segs))

Assignments(line) ==
    IF IsCall(line) THEN SegmentAssignments(CallSegments(line))
    ELSE IF IsBracketed(line) THEN TokenAssignments(AttrTokens(line))
    ELSE IF IsShorthand(line)
    THEN FirstTokenAssignments(SplitWhitespace(line)[1])
         \o TokenAssignments(Tail(SplitWhitespace(line)))
    ELSE <<>>

\* the line gives its classes in shorthand at most once
OneShorthandClass(line) ==
    IsShorthand(line)
        => Cardinality({i \in 1..Len(SplitWhitespace(line)) :
                           \/ i > 1 /\ StartsWith(SplitWhitespace(line)[i], <<".">>)
                           \/ i = 1 /\ Contains(SplitOnce(SplitWhitespace(line)[1], "#")[2], ".")})
               <= 1

\* props holds one entry for every key assigned, with the value of the last
\* assignment of the key
LastWins(assignments, props) ==
    /\ Keys(props) = {assignments[i][1] : i \in 1..Len(assignments)}
    /\ \A k \in Keys(props) : Cardinality({e \in props : e[1] = k}) = 1
    /\ \A i \in 1..Len(assignments) :
           (\A j \in (i + 1)..Len(assignments) : assignments[j][1] # assignments[i][1])
               => Get(props, assignments[i][1]) = assignments[i][2]

\* C21: attribute keys are unique within a node and the last write wins:
\* when a line gives a key more than once, class and id in shorthand and as
\* explicit key="value" tokens included, the node holds a single entry for
\* the key, with the value of the assignment that appears last in the line.
LastWriteWins ==
    (/\ Reading
     /\ NextNode.status = "ok"
     /\ NextNode.value.kind \in {"Element", "Component"}
     /\ OneShorthandClass(NextLine))
        => LastWins(Assignments(NextLine), NextNode.value.props)

----------------------------------------------------------------------------
\* the input of call p of the three calls on one parser
ReuseInput(p) == IF p = 2 THEN alt ELSE source

\* C22: parse keeps no state between calls: it leaves the fields of the
\* FerrumParser (components, current_indent) as new() made them, and after
\* any calls on one parser, successful or failing, parse(s) returns what it
\* returns on a fresh parser; the third call returns what the first returned.
ParseKeepsNoState ==
    /\ components = EmptyMap
    /\ current_indent = 0
    /\ \A p \in 1..3 : res[p] # None => res[p] = parse(ReuseInput(p))
    /\ res[3] # None => res[3] = res[1]

\* the first input has been parsed again after a failing call on another
\* input
ParsedAgainAfterFailure ==
    /\ pass = 3
    /\ res[1].status = "ok"
    /\ res[1].value # <<>>
    /\ res[2].status = "err"
    /\ res[3] # None

----------------------------------------------------------------------------
(* Nesting by indentation.                                                 *)

\* the line is indented by spaces only, 2 columns per level
TwoColumns(line) ==
    /\ TrimEnd(line) = line
    /\ IndentOf(line) % 2 = 0
    /\ \A i \in 1..IndentOf(line) : line[i] = " "

Level(line) == IndentOf(line) \div 2

\* the node of a line that parse_line accepts is child-capable
ChildCapable(line) ==
    /\ ~Skipped(line)
    /\ parse_line(Trim(line)).status = "ok"
    /\ has_children(parse_line(Trim(line)).value)

\* the lines before line n that can be the parent of line n: child-capable,
\* one level up, with nothing shallower than line n in between
ParentLines(ls, n) ==
    {j \in 1..(n - 1) :
        /\ ChildCapable(ls[j])
        /\ Level(ls[j]) = Level(ls[n]) - 1
        /\ \A i \in (j + 1)..(n - 1) : Skipped(ls[i]) \/ Level(ls[i]) >= Level(ls[n])}

\* the most recent of them
ParentLine(ls, n) ==
    CHOOSE j \in ParentLines(ls, n) : \A i \in ParentLines(ls, n) : i <= j

\* the node on top of the stack after the pop step, without its children
ParentAfterPop ==
    [PopDeeper(stack, IndentOf(Head(todo)))[Len(PopDeeper(stack, IndentOf(Head(todo))))]
        EXCEPT !.children = <<>>]

\* C23: with exactly 2 columns of indentation per level, after the pop step
\* each line at level k >= 1 is attached to the most recent preceding
\* child-capable line at level k - 1; two consecutive lines at the same level
\* get the same parent, the second is never attached to the first.
AttachedOneLevelUp ==
    LET ls == Lines(Input(pass))
        n  == Processed + 1
    IN  (/\ Reading
         /\ \A i \in 1..n : Skipped(ls[i]) \/ TwoColumns(ls[i])
         /\ Level(ls[n]) >= 1
         /\ ParentLines(ls, n) # {})
            => /\ stack # <<>>
               /\ ParentAfterPop = parse_line(Trim(ls[ParentLine(ls, n)])).value

\* no Element and no Component of the list has a child
NoChildren(forest) ==
    \A i \in 1..Len(forest) :
        forest[i].kind \in {"Element", "Component"} => forest[i].children = <<>>

LeavesThenOne(forest) == \A i \in 1..(Len(forest) - 1) : ~has_children(forest[i])

\* the text with the indentation of every line removed
Unindented(text) == TextOf([i \in 1..Len(Lines(text)) |-> Trim(Lines(text)[i])])

\* C25: during one parse call, once a child-capable node has been pushed the
\* stack never becomes empty again, so no later line adds a top-level node:
\* the returned forest is the leading run of leaf nodes followed by at most
\* one child-capable node, and it does not depend on the indentation of any
\* line.
OneChildCapableAtMost ==
    /\ LeavesThenOne(nodes)
    /\ pc = "parse"
           => (stack # <<>> <=> (nodes # <<>> /\ has_children(nodes[Len(nodes)])))
    /\ pc \in {"parsed", "aborted"}
           => /\ res[pass].status = "ok" => LeavesThenOne(res[pass].value)
              /\ res[pass] = parse(Unindented(Input(pass)))

\* a line without indentation has been read after a child-capable node was
\* pushed, and it has added no top-level node
UnindentedLineBeneath ==
    /\ JustRead
    /\ Processed >= 2
    /\ ~Skipped(Lines(Input(pass))[Processed])
    /\ IndentOf(Lines(Input(pass))[Processed]) = 0
    /\ Len(nodes) = 1
    /\ stack # <<>>

----------------------------------------------------------------------------
(* Dev server (crates/ferrum-dev-server/src/main.rs): the watcher task of   *)
(* setup_frr_watcher and the save request api_save.  Time is counted in    *)
(* milliseconds.  The file system and the notify backend are the           *)
(* environment: every change of a file under src/ queues one event.        *)

Some(v) == [status |-> "some", value |-> v]

\* the last index of c in s, 0 when c does not occur
RFind(s, c) ==
    IF \E i \in 1..Len(s) : s[i] = c
    THEN CHOOSE i \in 1..Len(s) : s[i] = c /\ \A j \in (i + 1)..Len(s) : s[j] # c
    ELSE 0

\* Path::file_name: the last component of the path
file_name(path) == SubSeq(path, RFind(path, "/") + 1, Len(path))

\* Path::extension: the part of the file name after its last dot; a name
\* without a dot, or with its only dot in front, has none
extension(path) ==
    LET name == file_name(path)
        i == RFind(name, ".")
    IN  IF i <= 1 THEN None ELSE Some(SubSeq(name, i + 1, Len(name)))

FRR == <<"f", "r", "r">>

\* the file that api_save formats
MainFrr == <<"s", "r", "c", "/", "m", "a", "i", "n", ".", "f", "r", "r">>

OtherFrr == <<"s", "r", "c", "/", "a", ".", "f", "r", "r">>

\* paths under src/ without the frr extension
StyleCss == <<"s", "r", "c", "/", "a", ".", "c", "s", "s">>

HiddenFrr == <<"s", "r", "c", "/", ".", "f", "r", "r">>

Paths == {MainFrr, OtherFrr, StyleCss, HiddenFrr}

\* file contents: one that compiles, one that parse rejects, one on which
\* parse panics, and one that parses while its formatted text does not
Compiles == TextOf(<< <<"d", "i", "v", "#", "a", ".", "b">> >>)

Rejected == TextOf(<< <<"<", "d", "i", "v">> >>)

Panics == TextOf(<< <<">", "<">> >>)

Unstable == TextOf(<< <<"<", "<", ">">> >>)

Contents == {Compiles, Rejected, Panics, Unstable}

\* the files whose text the model keeps: the text of a file matters only
\* where the server reads it
Sources_frr == {MainFrr, OtherFrr}

\* what is written to a file
Written(path) == IF path = MainFrr THEN Contents ELSE {Compiles, Rejected}

\* debounce_duration
Debounce == 300

\* the amounts by which the clock is seen to advance
Steps == {150}

MaxTime == 600

\* the file changes, backend errors and save requests of one run
MaxEvents == 2

NotFound == <<"N", "o", " ", "s", "u", "c", "h", " ", "f", "i", "l", "e">>

FormatError == <<"F", "o", "r", "m", "a", "t", " ", "e", "r", "r", "o", "r", ":", " ">>

ParseError == <<"P", "a", "r", "s", "e", " ", "e", "r", "r", "o", "r", ":", " ">>

\* fs::read_to_string
read_to_string(fs, path) == IF HasKey(fs, path) THEN Ok(Get(fs, path)) ELSE Err(NotFound)

\* fs::remove_file
Remove(fs, path) == {e \in fs : e[1] # path}

\* compile_frr_file after its call of parse: parsed is the result of
\* parser.parse(&content)
compile_parsed(parsed, rank) ==
    IF parsed.status = "ok" THEN generate_html_from_nodes(parsed.value, rank) ELSE parsed

\* the iteration orders that the serialization of a parse result can meet
RankingsOf(parsed) == IF parsed.status = "ok" THEN Rankings(parsed.value) ELSE {<<>>}

\* compile_frr_file
compile_frr_file(fs, path, rank) ==
    IF ~HasKey(fs, path) THEN read_to_string(fs, path)
    ELSE compile_parsed(parse(Get(fs, path)), rank)

CompileRankings(fs, path) ==
    IF HasKey(fs, path) THEN RankingsOf(parse(Get(fs, path))) ELSE {<<>>}

\* format_and_save_frr_file after formatting: formatted is the result of
\* formatter.format(&content); the file is written before its new text is
\* compiled.  The outcome is the result and the file system left behind.
save_formatted(fs, path, formatted, rank) ==
    IF formatted.status = "err"
    THEN [result |-> Err(FormatError \o formatted.msg), files |-> fs]
    ELSE IF formatted.status = "panic"
    THEN [result |-> Panic, files |-> fs]
    ELSE LET written == Insert(fs, path, formatted.value)
             parsed == parse(formatted.value)
         IN  IF parsed.status = "err"
             THEN [result |-> Err(ParseError \o parsed.msg), files |-> written]
             ELSE IF parsed.status = "panic"
             THEN [result |-> Panic, files |-> written]
             ELSE [result |-> Ok(<<formatted.value,
                                   generate_html_from_nodes(parsed.value, rank).value>>),
                   files |-> written]

\* FerrumFormatter::default().format(&content)
format_default(content, rank) == format_parsed(DefaultFormatter, parse(content), rank)

\* the result of formatting the file at path
formatted_file(fs, path, rank) ==
    IF HasKey(fs, path) THEN format_default(Get(fs, path), rank) ELSE read_to_string(fs, path)

SaveRankings(formatted) ==
    IF formatted.status = "ok" THEN RankingsOf(parse(formatted.value)) ELSE {<<>>}

\* format_and_save_frr_file
format_and_save_frr_file(fs, path, rank1, rank2) ==
    IF ~HasKey(fs, path) THEN [result |-> read_to_string(fs, path), files |-> fs]
    ELSE save_formatted(fs, path, format_default(Get(fs, path), rank1), rank2)

\* notify::Event
Event(kind, paths) == [kind |-> kind, paths |-> paths]

\* the loop over event.paths: a path with the frr extension becomes pending
\* with the time at which its event is handled
RECURSIVE mark_pending(_, _, _)
mark_pending(pending, paths, t) ==
    IF paths = <<>> THEN pending
    ELSE mark_pending(IF extension(Head(paths)) # Some(FRR) THEN pending
                      ELSE Insert(pending, Head(paths), t),
                      Tail(paths), t)

\* matches!(event.kind, EventKind::Modify(_) | EventKind::Create(_))
is_change(kind) == kind \in {"Modify", "Create"}

\* the branch of select! on rx.recv()
on_event(pending, message, t) ==
    IF message.status = "ok" /\ is_change(message.value.kind)
    THEN mark_pending(pending, message.value.paths, t)
    ELSE pending

\* retain that removes every pending path
debounced_all(pending, t) == Keys(pending)

\* the paths that pending_changes.retain removes: unchanged for the debounce
\* duration
debounced(pending, t) == {p \in Keys(pending) : t - Get(pending, p) >= Debounce}

\* no session of the front end is running
SessionOff ==
    /\ source = <<>>
    /\ fmt = DefaultFormatter
    /\ pc = "off"
    /\ pass = 0
    /\ todo = <<>>
    /\ nodes = <<>>
    /\ stack = <<>>
    /\ res = <<>>
    /\ out = <<>>
    /\ html = <<>>
    /\ again = <<>>
    /\ alt = <<>>
    /\ components = EmptyMap
    /\ current_indent = 0

\* ServerState
ServerState(last_reload, active_routes, compiled_files) ==
    [last_reload |-> last_reload, active_routes |-> active_routes,
     compiled_files |-> compiled_files]

NoReply == [code |-> "none"]

\* RustDevServer::new and the start of the watcher task
ServerInit ==
    /\ SessionOff
    /\ SignalsOff
    /\ files \in {{<<MainFrr, c>>} : c \in Contents}
    /\ rx = <<>>
    /\ received = 0
    /\ now = 0
    /\ wpc = "select"
    /\ next_tick = 0
    /\ pending_changes = EmptyMap
    /\ files_to_process = <<>>
    /\ compiled_components = EmptyMap
    /\ server_state = ServerState(0, <<>>, EmptyMap)
    /\ reply = NoReply
    /\ saves = 0

\* time passes; the timer of an idle watcher is not overslept
Advance ==
    /\ wpc # "off"
    /\ \E d \in Steps :
           /\ now + d <= MaxTime
           /\ wpc = "select" => now + d <= next_tick
           /\ now' = now + d
    /\ UNCHANGED <<files, rx, received, wpc, next_tick, pending_changes, files_to_process,
                   compiled_components, server_state, reply, saves>>
    /\ UNCHANGED <<session, signals>>

\* a .frr file under src/ is written: the backend reports it created or
\* modified
WriteFile ==
    /\ wpc # "off"
    /\ Len(rx) + saves < MaxEvents
    /\ \E path \in Sources_frr :
           \E content \in Written(path) :
               /\ files' = Insert(files, path, content)
               /\ rx' = Append(rx, Ok(Event(IF HasKey(files, path) THEN "Modify"
                                             ELSE "Create",
                                             <<path>>)))
    /\ UNCHANGED <<received, now, wpc, next_tick, pending_changes, files_to_process,
                   compiled_components, server_state, reply, saves>>
    /\ UNCHANGED <<session, signals>>

\* a .frr file under src/ is deleted
RemoveFile ==
    /\ wpc # "off"
    /\ Len(rx) + saves < MaxEvents
    /\ \E path \in Keys(files) :
           /\ files' = Remove(files, path)
           /\ rx' = Append(rx, Ok(Event("Remove", <<path>>)))
    /\ UNCHANGED <<received, now, wpc, next_tick, pending_changes, files_to_process,
                   compiled_components, server_state, reply, saves>>
    /\ UNCHANGED <<session, signals>>

\* a .frr file under src/ is renamed to the other name: one event of kind
\* Modify with both paths
RenameFile ==
    /\ wpc # "off"
    /\ Len(rx) + saves < MaxEvents
    /\ \E from \in Keys(files) :
           \E to \in Sources_frr \ {from} :
               /\ files' = Insert(Remove(files, from), to, Get(files, from))
               /\ rx' = Append(rx, Ok(Event("Modify", <<from, to>>)))
    /\ UNCHANGED <<received, now, wpc, next_tick, pending_changes, files_to_process,
                   compiled_components, server_state, reply, saves>>
    /\ UNCHANGED <<session, signals>>

\* another file under src/ is written
WriteOther ==
    /\ wpc # "off"
    /\ Len(rx) + saves < MaxEvents
    /\ \E path \in Paths \ Sources_frr :
           rx' = Append(rx, Ok(Event("Modify", <<path>>)))
    /\ UNCHANGED <<files, received, now, wpc, next_tick, pending_changes,
                   files_to_process, compiled_components, server_state, reply, saves>>
    /\ UNCHANGED <<session, signals>>

\* the backend reports an error
WatchError ==
    /\ wpc # "off"
    /\ Len(rx) + saves < MaxEvents
    /\ rx' = Append(rx, Err(<<"w", "a", "t", "c", "h">>))
    /\ UNCHANGED <<files, received, now, wpc, next_tick, pending_changes,
                   files_to_process, compiled_components, server_state, reply, saves>>
    /\ UNCHANGED <<session, signals>>

\* select!: rx.recv() yields the next event
WatcherReceive ==
    /\ wpc = "select"
    /\ received < Len(rx)
    /\ pending_changes' = on_event(pending_changes, rx[received + 1], now)
    /\ received' = received + 1
    /\ UNCHANGED <<files, rx, now, wpc, next_tick, files_to_process,
                   compiled_components, server_state, reply, saves>>
    /\ UNCHANGED <<session, signals>>

\* select!: debounce_interval.tick() completes; retain moves the debounced
\* paths, in the iteration order of the map, to files_to_process
WatcherTick ==
    /\ wpc = "select"
    /\ now >= next_tick
    /\ \E order \in Perms(debounced(pending_changes, now)) :
           /\ files_to_process' = order
           /\ wpc' = IF Len(order) = 0 THEN "select" ELSE "compile"
    /\ pending_changes' = {e \in pending_changes : e[1] \notin debounced(pending_changes, now)}
    /\ next_tick' = now + Debounce
    /\ UNCHANGED <<files, rx, received, now, compiled_components, server_state, reply, saves>>
    /\ UNCHANGED <<session, signals>>

\* the watcher goes on to the next path, or back to select!
NextPath ==
    /\ files_to_process' = Tail(files_to_process)
    /\ wpc' = IF Len(files_to_process) = 1 THEN "select" ELSE "compile"

\* the loop over files_to_process, Ok(compiled): both maps take the output
CompileOk(path, result) ==
    /\ result.status = "ok"
    /\ compiled_components' = Insert(compiled_components, path, result.value)
    /\ server_state' = ServerState(now, server_state.active_routes,
                                   Insert(server_state.compiled_files, path, result.value))

WatcherCompileOk ==
    /\ wpc = "compile"
    /\ \E rank \in CompileRankings(files, Head(files_to_process)) :
           CompileOk(Head(files_to_process),
                     compile_frr_file(files, Head(files_to_process), rank))
    /\ NextPath
    /\ UNCHANGED <<files, rx, received, now, next_tick, pending_changes, reply, saves>>
    /\ UNCHANGED <<session, signals>>

\* an Err arm that records a reload
CompileErr_reloads(result) ==
    /\ result.status = "err"
    /\ server_state' = [server_state EXCEPT !.last_reload = now]
    /\ UNCHANGED compiled_components

\* the loop over files_to_process, Err(e): the error is printed
CompileErr(result) ==
    /\ result.status = "err"
    /\ UNCHANGED <<compiled_components, server_state>>

WatcherCompileErr ==
    /\ wpc = "compile"
    /\ CompileErr(compile_frr_file(files, Head(files_to_process), <<>>))
    /\ NextPath
    /\ UNCHANGED <<files, rx, received, now, next_tick, pending_changes, reply, saves>>
    /\ UNCHANGED <<session, signals>>

\* parse panics inside compile_frr_file: the watcher task ends
WatcherCompilePanic ==
    /\ wpc = "compile"
    /\ compile_frr_file(files, Head(files_to_process), <<>>).status = "panic"
    /\ wpc' = "dead"
    /\ UNCHANGED <<files, rx, received, now, next_tick, pending_changes, files_to_process,
                   compiled_components, server_state, reply, saves>>
    /\ UNCHANGED <<session, signals>>

\* what a save request leaves on disk; a rewritten file is reported by the
\* backend
Saved(outcome) ==
    /\ files' = outcome.files
    /\ rx' = IF outcome.files = files THEN rx
             ELSE Append(rx, Ok(Event("Modify", <<MainFrr>>)))
    /\ saves' = saves + 1

\* api_save, Ok((formatted, compiled))
SaveOk(outcome) ==
    /\ outcome.result.status = "ok"
    /\ server_state' = ServerState(now, server_state.active_routes,
                                   Insert(server_state.compiled_files, MainFrr,
                                          outcome.result.value[2]))
    /\ reply' = [code |-> "200", formatted |-> outcome.result.value[1],
                 compiled |-> outcome.result.value[2]]
    /\ Saved(outcome)

\* api_save, Err(e)
SaveErr(outcome) ==
    /\ outcome.result.status = "err"
    /\ reply' = [code |-> "500", error |-> outcome.result.msg]
    /\ Saved(outcome)
    /\ UNCHANGED server_state

\* the formatter or the parser panics inside api_save: no response is sent
SavePanic(outcome) ==
    /\ outcome.result.status = "panic"
    /\ reply' = [code |-> "closed"]
    /\ Saved(outcome)
    /\ UNCHANGED server_state

\* a request for api_save arrives; it leaves the watcher alone
Requested ==
    /\ wpc # "off"
    /\ Len(rx) + saves < MaxEvents
    /\ UNCHANGED <<received, now, wpc, next_tick, pending_changes, files_to_process,
                   compiled_components>>
    /\ UNCHANGED <<session, signals>>

\* api_save; rank1 and rank2 are the orders met by the two serializations
ApiSaveOk ==
    /\ Requested
    /\ \E rank1 \in CompileRankings(files, MainFrr) :
           \E rank2 \in SaveRankings(formatted_file(files, MainFrr, rank1)) :
               SaveOk(format_and_save_frr_file(files, MainFrr, rank1, rank2))

ApiSaveErr ==
    /\ Requested
    /\ \E rank1 \in CompileRankings(files, MainFrr) :
           \E rank2 \in SaveRankings(formatted_file(files, MainFrr, rank1)) :
               SaveErr(format_and_save_frr_file(files, MainFrr, rank1, rank2))

ApiSavePanic ==
    /\ Requested
    /\ \E rank1 \in CompileRankings(files, MainFrr) :
           \E rank2 \in SaveRankings(formatted_file(files, MainFrr, rank1)) :
               SavePanic(format_and_save_frr_file(files, MainFrr, rank1, rank2))

ServerNext ==
    \/ Advance
    \/ WriteFile
    \/ RemoveFile
    \/ RenameFile
    \/ WriteOther
    \/ WatchError
    \/ WatcherReceive
    \/ WatcherTick
    \/ WatcherCompileOk
    \/ WatcherCompileErr
    \/ WatcherCompilePanic
    \/ ApiSaveOk
    \/ ApiSaveErr
    \/ ApiSavePanic

ServerSpec == ServerInit /\ [][ServerNext]_vars

----------------------------------------------------------------------------
(* Properties of the watcher                                               *)

Range(s) == {s[i] : i \in 1..Len(s)}

\* message reports that the file at path p was created or modified
ChangeOf(message, p) ==
    /\ message.status = "ok"
    /\ message.value.kind \in {"Create", "Modify"}
    /\ p \in Range(message.value.paths)

\* the name of the file at p ends in .frr behind a stem
NamedFrr(p) == Len(file_name(p)) > 4 /\ EndsWith(p, <<".", "f", "r", "r">>)

\* this step of the watcher handles a message
Receives == received' = received + 1

\* this step of the watcher is the compilation of p
Compiles_path(p) ==
    /\ wpc = "compile"
    /\ Head(files_to_process) = p
    /\ files_to_process' = Tail(files_to_process) \/ wpc' = "dead"

\* the time at which p became pending changes in this step
Stamped(p) ==
    /\ HasKey(pending_changes', p)
    /\ ~HasKey(pending_changes, p) \/ Get(pending_changes', p) # Get(pending_changes, p)

Debounced(p) ==
    \* a change of a .frr path, and nothing else, makes it pending with the
    \* time at which the watcher handles the event
    /\ Stamped(p) => Receives /\ ChangeOf(rx[received + 1], p) /\ NamedFrr(p)
    /\ Receives /\ ChangeOf(rx[received + 1], p) /\ NamedFrr(p)
           => HasKey(pending_changes', p) /\ Get(pending_changes', p) = now
    \* a path is taken for compilation at a tick, the debounce duration after
    \* its latest event, and is then no longer pending
    /\ p \in Range(files_to_process') \ Range(files_to_process)
           => /\ wpc = "select"
              /\ now >= next_tick
              /\ HasKey(pending_changes, p)
              /\ now - Get(pending_changes, p) >= 300
              /\ ~HasKey(pending_changes', p)
    /\ HasKey(pending_changes, p) /\ ~HasKey(pending_changes', p)
           => p \in Range(files_to_process')
    \* it is compiled once, and the output of a path is written by its
    \* compilation only
    /\ Compiles_path(p)
           => /\ p \notin Range(Tail(files_to_process))
              /\ ~HasKey(pending_changes', p)
              /\ wpc' = "dead" \/ p \notin Range(files_to_process')
    /\ {e \in compiled_components' : e[1] = p} # {e \in compiled_components : e[1] = p}
           => Compiles_path(p)

\* C26: the watcher compiles a changed .frr path only at a debounce tick at
\* which at least 300 ms have passed since it handled the latest Create or
\* Modify event for that path; the events for one path handled before that
\* tick lead to one compilation, after which the path is not pending; events
\* of other kinds and events for other paths cause no compilation
DebouncedCompilation ==
    [][/\ \A p \in Paths : Debounced(p)
       /\ files_to_process' # files_to_process
              => \/ wpc = "select" /\ Len(files_to_process) = 0
                 \/ wpc = "compile" /\ files_to_process' = Tail(files_to_process)]_vars

\* two events for one path were handled before the tick at 300 ms, at which
\* the path was compiled
TwoEventsOneCompilation ==
    /\ wpc = "select"
    /\ Len(rx) = 2
    /\ received = 2
    /\ \A i \in 1..2 : ChangeOf(rx[i], OtherFrr) /\ rx[i].value.paths = <<OtherFrr>>
    /\ HasKey(compiled_components, OtherFrr)
    /\ server_state.last_reload = 300
    /\ now = 300
    /\ pending_changes = EmptyMap
    /\ files_to_process = <<>>

\* this step is a compilation of p that does not yield its HTML
FailedCompilation(p) ==
    /\ Compiles_path(p)
    /\ \A rank \in CompileRankings(files, p) :
           compile_frr_file(files, p, rank).status # "ok"

\* C27: a compilation that fails in the watcher leaves compiled_components
\* and ServerState as they were, and the path is compiled again only after
\* a new event for it: it is neither pending nor queued after the failure,
\* a path is queued only when pending, and becomes pending only by an event
FailedCompilationKeepsOutput ==
    [][\A p \in Paths :
           /\ FailedCompilation(p)
                  => /\ compiled_components' = compiled_components
                     /\ server_state' = server_state
                     /\ ~HasKey(pending_changes', p)
                     /\ wpc' = "dead" \/ p \notin Range(files_to_process')
           /\ p \in Range(files_to_process') \ Range(files_to_process)
                  => HasKey(pending_changes, p)
           /\ HasKey(pending_changes', p) /\ ~HasKey(pending_changes, p)
                  => Receives /\ ChangeOf(rx[received + 1], p)]_vars

\* src/main.frr was compiled at 300 ms, then written with a text that parse
\* rejects and compiled again at 600 ms: its output of 300 ms is in place
OutputKeptAfterFailure ==
    /\ wpc = "select"
    /\ now = 600
    /\ Len(rx) = 2
    /\ received = 2
    /\ \A i \in 1..2 : ChangeOf(rx[i], MainFrr)
    /\ HasKey(files, MainFrr)
    /\ Get(files, MainFrr) = Rejected
    /\ pending_changes = EmptyMap
    /\ files_to_process = <<>>
    /\ HasKey(compiled_components, MainFrr)
    /\ HasKey(server_state.compiled_files, MainFrr)
    /\ server_state.last_reload = 300

----------------------------------------------------------------------------
(* Properties of the save request                                          *)

\* this step is a save request
SaveRequest == saves' = saves + 1

\* C28: a save request is all-or-nothing: when it reports an error, the text
\* of src/main.frr and ServerState are unchanged; when it succeeds, the file
\* holds the formatted text and compiled_files holds the HTML compiled from
\* that text
SaveAllOrNothing ==
    [][SaveRequest
           => /\ reply'.code = "500"
                     => files' = files /\ server_state' = server_state
              /\ reply'.code = "200"
                     => /\ HasKey(files', MainFrr)
                        /\ Get(files', MainFrr) = reply'.formatted
                        /\ HasKey(server_state'.compiled_files, MainFrr)
                        /\ \E rank \in CompileRankings(files', MainFrr) :
                               compile_frr_file(files', MainFrr, rank)
                                   = Ok(Get(server_state'.compiled_files, MainFrr))]_vars

----------------------------------------------------------------------------
(* Signal (crates/ferrum-core/src/state.rs).  A Signal is a handle on an    *)
(* Arc<RwLock<SignalInner>>: clones share the cell.  One thread of the     *)
(* application uses a signal; a callback runs on that thread, inside       *)
(* the call of set that invokes it.  A subscriber either leaves the signal *)
(* alone or calls get, set or subscribe on the signal it is subscribed to. *)

\* the handles on the signal and its subscribers in one run
MaxHandles == 2

MaxSubscribers == 2

\* the values that are set; a signal starts with InitialValue
Values == {1, 2}

InitialValue == 0

\* what a subscriber does with the signal it is subscribed to
Kinds == {"plain", "get", "set", "subscribe"}

\* RwLock<SignalInner<T>>: lock is "free" or "write"; a get holds the read
\* lock within one step only
SignalInner(value, subscribers) ==
    [value |-> value, subscribers |-> subscribers, lock |-> "free", poisoned |-> FALSE]

\* no call of set has been made
Idle == [status |-> "idle", handle |-> 0, value |-> InitialValue, next |-> 0, registered |-> 0]

\* the thread is between two calls
AtRest == setting.status \in {"idle", "returned"}

\* RwLock::read().unwrap() and RwLock::write().unwrap() by a thread that
\* holds no lock on the cell
Acquirable(inner) == inner.lock = "free" /\ ~inner.poisoned

\* Signal::new
SignalInit ==
    /\ SessionOff
    /\ ServerOff
    /\ inners = << SignalInner(InitialValue, <<>>) >>
    /\ handles = <<1>>
    /\ setting = Idle
    /\ calls = <<>>
    /\ got = None

\* Clone for Signal: the Arc is cloned, the cell is shared
Clone ==
    /\ AtRest
    /\ Len(handles) < MaxHandles
    /\ \E h \in 1..Len(handles) : handles' = Append(handles, handles[h])
    /\ UNCHANGED <<inners, setting, calls, got>>
    /\ UNCHANGED <<session, server>>

\* Signal::get outside of a callback
Get_value ==
    /\ AtRest
    /\ \E h \in 1..Len(handles) :
           /\ Acquirable(inners[handles[h]])
           /\ got' = [handle |-> h, value |-> inners[handles[h]].value]
    /\ UNCHANGED <<inners, handles, setting, calls>>
    /\ UNCHANGED <<session, server>>

\* Signal::subscribe outside of a callback
Subscribe ==
    /\ AtRest
    /\ \E h \in 1..Len(handles), kind \in Kinds :
           /\ Acquirable(inners[handles[h]])
           /\ Len(inners[handles[h]].subscribers) < MaxSubscribers
           /\ inners' = [inners EXCEPT ![handles[h]].subscribers = Append(@, kind)]
    /\ UNCHANGED <<handles, setting, calls, got>>
    /\ UNCHANGED <<session, server>>

\* Signal::set up to the loop: the write lock is taken and the value stored
SetStart ==
    /\ AtRest
    /\ \E h \in 1..Len(handles), v \in Values :
           /\ Acquirable(inners[handles[h]])
           /\ inners' = [inners EXCEPT ![handles[h]].lock = "write",
                                        ![handles[h]].value = v]
           /\ setting' = [status |-> "notifying", handle |-> h, value |-> v, next |-> 1,
                          registered |-> Len(inners[handles[h]].subscribers)]
    /\ calls' = <<>>
    /\ UNCHANGED <<handles, got>>
    /\ UNCHANGED <<session, server>>

\* the cell of the running call of set
Cell == handles[setting.handle]

\* the loop of set is at a subscriber of the given kinds
At(kinds) ==
    /\ setting.status = "notifying"
    /\ setting.next <= Len(inners[Cell].subscribers)
    /\ inners[Cell].subscribers[setting.next] \in kinds

\* callback(&inner.value)
Called == calls' = Append(calls, <<setting.next, inners[Cell].value>>)

\* the loop of set calls a subscriber that leaves the signal alone
CallPlain ==
    /\ At({"plain"})
    /\ Called
    /\ setting' = [setting EXCEPT !.next = @ + 1]
    /\ UNCHANGED <<inners, handles, got>>
    /\ UNCHANGED <<session, server>>

\* the loop of set calls a subscriber that calls get, set or subscribe on
\* the signal: read() or write() on a lock that the thread holds for
\* writing blocks for ever
CallBlocks ==
    /\ At({"get", "set", "subscribe"})
    /\ Called
    /\ setting' = [setting EXCEPT !.status = "blocked"]
    /\ UNCHANGED <<inners, handles, got>>
    /\ UNCHANGED <<session, server>>

\* or panics: set unwinds, its guard is dropped and the lock is poisoned
CallPanics ==
    /\ At({"get", "set", "subscribe"})
    /\ Called
    /\ setting' = [setting EXCEPT !.status = "panicked"]
    /\ inners' = [inners EXCEPT ![Cell].lock = "free", ![Cell].poisoned = TRUE]
    /\ UNCHANGED <<handles, got>>
    /\ UNCHANGED <<session, server>>

\* the loop of set is over: the guard is dropped and set returns
SetReturn ==
    /\ setting.status = "notifying"
    /\ setting.next > Len(inners[Cell].subscribers)
    /\ setting' = [setting EXCEPT !.status = "returned"]
    /\ inners' = [inners EXCEPT ![Cell].lock = "free"]
    /\ UNCHANGED <<handles, calls, got>>
    /\ UNCHANGED <<session, server>>

SignalNext ==
    \/ Clone
    \/ Get_value
    \/ Subscribe
    \/ SetStart
    \/ CallPlain
    \/ CallBlocks
    \/ CallPanics
    \/ SetReturn

SignalSpec == SignalInit /\ [][SignalNext]_vars

----------------------------------------------------------------------------
(* Properties of Signal                                                    *)

\* the calls that a set of v makes to n subscribers
AllCalled(n, v) == [i \in 1..n |-> <<i, v>>]

\* the call of set is over: it has returned, or it can go no further
SetOver == setting.status \in {"returned", "blocked", "panicked"}

\* get on handle h returns v
Gets(h, v) == Acquirable(inners[handles[h]]) /\ inners[handles[h]].value = v

\* set(v) has stored v and called the subscribers registered before it, each
\* once, in the order of their registration, with v, and get returns v on
\* every handle
Notified ==
    /\ calls = AllCalled(setting.registered, setting.value)
    /\ \A h \in 1..Len(handles) : Gets(h, setting.value)

\* C29: set(v) stores v and then calls every subscriber registered so far
\* exactly once, in registration order, with v; afterwards get on the signal
\* and on every clone of it returns v
SetNotifiesAll == SetOver => Notified

\* what holds of every call of set: the subscribers are called in the order
\* of their registration with the value set, none twice, and a call that
\* returns has called them all and leaves the value to get on every handle
NotifiedInOrder ==
    /\ setting.status # "idle"
           => /\ Len(calls) <= setting.registered
              /\ calls = SubSeq(AllCalled(setting.registered, setting.value), 1, Len(calls))
              /\ inners[Cell].value = setting.value
    /\ setting.status = "returned" => Notified

\* C30: a set whose subscriber calls get, set or subscribe on the same signal
\* completes: it neither blocks on the lock of the signal nor unwinds
ReentrantSetCompletes == setting.status \notin {"blocked", "panicked"}


====
